---- MODULE Spec2Model ----
(***************************************************************************)
(* A model of Fretscape (src/unnamed/part_001, the most complete revision  *)
(* of js/Fretscape.js), of Brick (src/unnamed/part_002) and of the drum    *)
(* engine's transport interface (src/js/DrumEngine.js).                    *)
(*                                                                         *)
(* Conventions                                                             *)
(*  - A JavaScript string is a sequence of one-character strings; a value  *)
(*    that may not be a string is [str |-> BOOLEAN, s |-> chars].          *)
(*  - An optional value (null or a value) is <<>> or <<v>>.                *)
(*  - World coordinates are integers in units of 1/U cell-width, so that   *)
(*    the fractions the drag projector produces are exact.                 *)
(*  - A timer handle is a positive integer; 0 is the null handle.          *)
(***************************************************************************)
EXTENDS Integers, Sequences, FiniteSets, TLC

(***************************************************************************)
(* Bounds of the model.                                                    *)
(***************************************************************************)
\* Beats a run may dispatch after one start (the beat index is unbounded in the code).
MaxBeat == 5
\* Resolution of the animation progress an animation frame may compute (0..ProgressSteps).
ProgressSteps == 2
\* Placements a canvas may hold (every drag session adds one).
MaxBricks == 2
\* The touches the screen tracks at once.
MaxTouches == 3
\* Placements a canvas may hold in the sessions of the left mouse button alone.
MaxPlacements == 3
\* Lattice coordinates range over -MaxLatticeIndex..MaxLatticeIndex (unbounded in the code).
MaxLatticeIndex == 3
\* Characters of a degree token passed to _degreeToSemitoneOffset (unbounded in the code).
MaxTokenLen == 4
\* Beat plans are asked for the beats 0..MaxPlanBeat (the beat index is unbounded in the code).
MaxPlanBeat == 9
\* Snap candidates are drawn up to this many cell-widths outside the board.
MaxSnapMargin == 3
\* Drag targets are drawn up to this many cell-widths from the anchor.
MaxDragReach == 4
\* Chord shapes are asked for the chord indices 0..MaxShapeChord.
MaxShapeChord == 4
\* The drum engine is asked for the beats 0..MaxDrumBeat.
MaxDrumBeat == 4
\* Beats the clock may tick among the setters of a whole session.
MaxSessionBeat == 2

(***************************************************************************)
(* Program constants.                                                      *)
(***************************************************************************)
\* Sub-units per cell-width. 104 = lcm(8, 26) makes t*V exact for both
\* constraint vectors; the factor 2 puts pointer positions on half cells.
U == 2 * 104
\* Sub-beat times are integers in units of 1/BeatUnit beat (0.05 = 15, 0.08 = 24).
BeatUnit == 3 * 100
widthCw == 25
heightCw == 15
brickWidthCw == 5
brickHeightCw == 3
progressionBeatsPerChord == 4
MinBpm == 60
MaxBpm == 200
DefaultBpm == 100
MsPerMinute == 60000

None == <<>>
Some(v) == <<v>>
IsSome(o) == Len(o) > 0
Val(o) == o[1]
\* JavaScript's a || b on optional values.
OrElse(a, b) == IF IsSome(a) THEN a ELSE b

\* A value bound to a name for the body Op: JavaScript's  var x = v; ...
With(v, Op(_)) == Op(v)

Abs(n) == IF n < 0 THEN -n ELSE n
Min(a, b) == IF a < b THEN a ELSE b
Max(a, b) == IF a > b THEN a ELSE b
\* ((n % 12) + 12) % 12 : TLA+'s % is already the non-negative remainder.
Mod12(n) == n % 12

Str(chars) == [str |-> TRUE, s |-> chars]
NotAString == [str |-> FALSE, s |-> <<>>]

(***************************************************************************)
(* Brick: a 5x3 grid of cell labels.                                       *)
(***************************************************************************)
BrickCellData ==
  << << <<"7">>, <<"b","7">>, <<"6">>, <<"b","6">>, <<"5">> >>,
     << <<"3">>, <<"b","3">>, <<"2">>, <<"b","2">>, <<"1">> >>,
     << <<"6">>, <<"b","6">>, <<"5">>, <<"b","5">>, <<"4">> >> >>

(***************************************************************************)
(* String helpers.                                                         *)
(***************************************************************************)
IsSpace(c) == c \in {" ", "\t", "\n"}

RECURSIVE TrimLeft(_)
TrimLeft(s) == IF s # <<>> /\ IsSpace(Head(s)) THEN TrimLeft(Tail(s)) ELSE s

RECURSIVE TrimRight(_)
TrimRight(s) ==
  IF s # <<>> /\ IsSpace(s[Len(s)]) THEN TrimRight(SubSeq(s, 1, Len(s) - 1)) ELSE s

Trim(s) == TrimRight(TrimLeft(s))

UpperChar(c) ==
  CASE c = "i" -> "I"
    [] c = "v" -> "V"
    [] c = "x" -> "X"
    [] c = "b" -> "B"
    [] OTHER -> c

ToUpperCase(s) == [i \in 1..Len(s) |-> UpperChar(s[i])]

\* The leading run of '#' / 'b' characters: <<accidental, rest>>.
RECURSIVE StripAccidentals(_, _)
StripAccidentals(s, acc) ==
  IF s # <<>> /\ Head(s) \in {"#", "b"}
  THEN StripAccidentals(Tail(s), acc + (IF Head(s) = "#" THEN 1 ELSE -1))
  ELSE <<acc, s>>

degreeOrder ==
  << <<"I">>, <<"I","I">>, <<"I","I","I">>, <<"I","V">>, <<"V">>,
     <<"V","I">>, <<"V","I","I">> >>

scaleSemitones == <<0, 2, 4, 5, 7, 9, 11>>

\* Array.prototype.indexOf, 0-based, -1 when absent.
IndexOf(seq, x) ==
  IF \E i \in 1..Len(seq) : seq[i] = x
  THEN (CHOOSE i \in 1..Len(seq) : seq[i] = x /\ \A j \in 1..(i-1) : seq[j] # x) - 1
  ELSE -1

(***************************************************************************)
(* _parseDegreeToken: None, or Some([degreeIndex, accidental]).            *)
(***************************************************************************)
ParseDegreeToken(degreeToken) ==
  IF ~degreeToken.str THEN None
  ELSE With(Trim(degreeToken.s), LAMBDA token :
    IF token = <<>> THEN None
    ELSE With(StripAccidentals(token, 0), LAMBDA st :
      IF st[2] = <<>> THEN None
      ELSE With(IndexOf(degreeOrder, ToUpperCase(st[2])), LAMBDA degreeIndex :
        IF degreeIndex < 0 THEN None
        ELSE Some([degreeIndex |-> degreeIndex, accidental |-> st[1]]))))

\* Mutant: the sum is returned without the reduction modulo 12.
DegreeToSemitoneOffsetWithoutWrap(degreeToken) ==
  With(ParseDegreeToken(degreeToken), LAMBDA parsed :
    IF ~IsSome(parsed) THEN None
    ELSE Some(scaleSemitones[Val(parsed).degreeIndex + 1] + Val(parsed).accidental))

DegreeToSemitoneOffset(degreeToken) ==
  With(ParseDegreeToken(degreeToken), LAMBDA parsed :
    IF ~IsSome(parsed) THEN None
    ELSE Some(Mod12(scaleSemitones[Val(parsed).degreeIndex + 1] + Val(parsed).accidental)))

DegreeToScaleIndex(degreeToken) ==
  With(ParseDegreeToken(degreeToken), LAMBDA parsed :
    IF IsSome(parsed) THEN Some(Val(parsed).degreeIndex) ELSE None)

thirdIntervalsByScaleIndex == <<4, 3, 3, 4, 4, 3, 3>>

\* Mutant: the interval follows the letter case of the numeral, 4 for upper case.
GetThirdSemitoneOffsetByCase(degreeToken) ==
  With(DegreeToSemitoneOffset(degreeToken), LAMBDA rootSemitone :
    IF ~IsSome(rootSemitone) THEN None
    ELSE With(StripAccidentals(Trim(degreeToken.s), 0)[2], LAMBDA numeral :
           Some(Mod12(Val(rootSemitone) + (IF numeral = ToUpperCase(numeral) THEN 4 ELSE 3)))))

GetThirdSemitoneOffsetForDegree(degreeToken) ==
  With(DegreeToSemitoneOffset(degreeToken), LAMBDA rootSemitone :
  With(DegreeToScaleIndex(degreeToken), LAMBDA rootScaleIndex :
    IF ~IsSome(rootSemitone) \/ ~IsSome(rootScaleIndex) THEN None
    ELSE Some(Mod12(Val(rootSemitone) + thirdIntervalsByScaleIndex[Val(rootScaleIndex) + 1]))))

(***************************************************************************)
(* parseInt(s, 10): None for NaN, else Some(n).                            *)
(***************************************************************************)
DigitValue(c) ==
  CASE c = "0" -> 0 [] c = "1" -> 1 [] c = "2" -> 2 [] c = "3" -> 3 [] c = "4" -> 4
    [] c = "5" -> 5 [] c = "6" -> 6 [] c = "7" -> 7 [] c = "8" -> 8 [] c = "9" -> 9
    [] OTHER -> -1

IsDigit(c) == DigitValue(c) >= 0

\* The value of the leading run of digits of s, starting from acc.
RECURSIVE DigitRun(_, _)
DigitRun(s, acc) ==
  IF s # <<>> /\ IsDigit(Head(s)) THEN DigitRun(Tail(s), 10 * acc + DigitValue(Head(s)))
  ELSE acc

ParseInt(s) ==
  With(TrimLeft(s), LAMBDA t :
  With(IF t # <<>> /\ Head(t) \in {"-", "+"} THEN Tail(t) ELSE t, LAMBDA body :
    IF body = <<>> \/ ~IsDigit(Head(body)) THEN None
    ELSE Some(IF t # <<>> /\ Head(t) = "-" THEN -DigitRun(body, 0) ELSE DigitRun(body, 0))))

\* _cellLabelToSemitoneOffset
CellLabelToSemitoneOffset(labelChars) ==
  With(Trim(labelChars), LAMBDA token :
    IF token = <<>> THEN None
    ELSE With(StripAccidentals(token, 0), LAMBDA st :
         With(ParseInt(st[2]), LAMBDA degreeNum :
           IF ~IsSome(degreeNum) \/ Val(degreeNum) = 0 \/ Val(degreeNum) < 1 \/ Val(degreeNum) > 7
           THEN None
           ELSE Some(Mod12(scaleSemitones[Val(degreeNum)] + st[1])))))

(***************************************************************************)
(* _parseRiffNotes: four beats of fretspace offsets [x, y].                *)
(***************************************************************************)
RECURSIVE SkipSpaces(_, _)
SkipSpaces(s, p) == IF p <= Len(s) /\ IsSpace(s[p]) THEN SkipSpaces(s, p + 1) ELSE p

RECURSIVE SkipDigits(_, _)
SkipDigits(s, p) == IF p <= Len(s) /\ IsDigit(s[p]) THEN SkipDigits(s, p + 1) ELSE p

\* The first position of c in s from p on, 0 when there is none.
IndexFrom(s, p, c) ==
  IF \E i \in p..Len(s) : s[i] = c
  THEN CHOOSE i \in p..Len(s) : s[i] = c /\ \A j \in p..(i - 1) : s[j] # c
  ELSE 0

\* A match of /\(\s*(-?\d+)\s*,\s*([^)]+)\)/ that starts at position p.
MatchRiffGroupAt(s, p) ==
  IF p > Len(s) \/ s[p] # "(" THEN None
  ELSE With(SkipSpaces(s, p + 1), LAMBDA q :
       With(IF q <= Len(s) /\ s[q] = "-" THEN q + 1 ELSE q, LAMBDA d :
       With(SkipDigits(s, d), LAMBDA dEnd :
       With(SkipSpaces(s, dEnd), LAMBDA k :
       With(IndexFrom(s, k + 1, ")"), LAMBDA close :
         IF dEnd = d \/ k > Len(s) \/ s[k] # "," \/ close = 0 \/ close = k + 1 THEN None
         ELSE Some([y |-> SubSeq(s, q, dEnd - 1), sequence |-> SubSeq(s, k + 1, close - 1),
                    close |-> close]))))))

\* The matches re.exec finds in turn, from position p on.
RECURSIVE RiffGroupsFrom(_, _)
RiffGroupsFrom(s, p) ==
  IF p > Len(s) THEN <<>>
  ELSE With(MatchRiffGroupAt(s, p), LAMBDA m :
         IF IsSome(m) THEN << Val(m) >> \o RiffGroupsFrom(s, Val(m).close + 1)
         ELSE RiffGroupsFrom(s, p + 1))

RemoveSpaces(s) == SelectSeq(s, LAMBDA c : ~IsSpace(c))

\* String.prototype.split(sep) for a one-character separator.
RECURSIVE Split(_, _)
Split(s, sep) ==
  With(IndexFrom(s, 1, sep), LAMBDA i :
    IF i = 0 THEN << s >>
    ELSE << SubSeq(s, 1, i - 1) >> \o Split(SubSeq(s, i + 1, Len(s)), sep))

\* The tokens of a group's sequence: split at commas when it has one, else its characters.
RiffTokens(sequenceRaw) ==
  With(RemoveSpaces(sequenceRaw), LAMBDA compact :
    IF IndexFrom(compact, 1, ",") > 0 THEN Split(compact, ",")
    ELSE [i \in 1..Len(compact) |-> << compact[i] >>])

\* What one match adds to beat i (0-based).
RiffGroupNotes(group, i) ==
  IF Trim(group.sequence) = <<>> THEN <<>>
  ELSE With(RiffTokens(Trim(group.sequence)), LAMBDA tokens :
       With(IF i < Len(tokens) THEN Trim(tokens[i + 1]) ELSE <<"-">>, LAMBDA token :
         IF token = <<>> \/ token = <<"-">> \/ ~IsSome(ParseInt(token)) THEN <<>>
         ELSE << [x |-> Val(ParseInt(token)), y |-> Val(ParseInt(group.y))] >>))

RECURSIVE RiffBeatNotes(_, _)
RiffBeatNotes(groups, i) ==
  IF groups = <<>> THEN <<>>
  ELSE RiffGroupNotes(Head(groups), i) \o RiffBeatNotes(Tail(groups), i)

\* _parseRiffNotes
ParseRiffNotes(notesString) ==
  IF ~notesString.str THEN << <<>>, <<>>, <<>>, <<>> >>
  ELSE With(RiffGroupsFrom(notesString.s, 1), LAMBDA groups :
         [i \in 1..4 |-> RiffBeatNotes(groups, i - 1)])

(***************************************************************************)
(* State.                                                                  *)
(***************************************************************************)
VARIABLES
  bricks,                       \* this.bricks: sequence of [xCw, yCw] (all 5x3 Bricks)
  isLeftHanded,                 \* this._isLeftHanded
  isVerticallyMirrored,         \* this._isVerticallyMirrored
  activeProgressionDegrees,     \* this._activeProgressionDegrees: None or Some(tokens)
  progressionPlaybackMode,      \* this._progressionPlaybackMode
  isProgressionPlaying,         \* this._isProgressionPlaying
  progressionBeatTimer,         \* this._progressionBeatTimer (0 = null)
  progressionAnimationFrame,    \* this._progressionAnimationFrame (0 = null)
  progressionBeatIndex,         \* this._progressionBeatIndex
  progressionBpm,               \* this._progressionBpm
  pulse,                        \* the interpolation endpoints (see ClearedPulse)
  activeRiffBeats,              \* this._activeRiffBeats: None or Some(4 beats of offsets)
  activeStrumBeats,             \* this._activeStrumBeats: None or Some(4 tokens)
  activeStrumTimeline,          \* this._activeStrumTimeline: None or Some(actions)
  hasDrumEngine,                \* this._drumEngine !== null
  intervals,                    \* host: live setInterval timers, [id, ms]
  frames,                       \* host: pending requestAnimationFrame callbacks (ids)
  lastOp,                       \* history: what the last operation did
  beatLog,                      \* history: beat indices dispatched since the last start
  dragItem,                     \* this._dragItem: its index in bricks (0 = null)
  isCreating,                   \* this._isCreating
  offsetCw,                     \* this._offsetCw
  dragStartOrigin,              \* this._dragStartOrigin: None or Some(point)
  dragConstraintVector,         \* this._dragConstraintVector
  pendingDragCopy,              \* this._pendingDragCopy: None or Some(pending hold)
  timeouts,                     \* host: pending setTimeout timers (ids)
  isMousePanning,               \* this._isMousePanning
  touchGesture,                 \* this._touchGesture !== null
  buttonsHeld,                  \* host: the mouse buttons held down (0 left, 1 middle, 2 right)
  touchCount,                   \* host: the touches on the screen
  dragOp,                       \* history: the last input handler and whether it projected
  hasAudioBackend,              \* host: window.AudioContext || window.webkitAudioContext
  musicalKey,                   \* this._musicalKey (a string of characters)
  audioCtx,                     \* this._audioCtx !== null
  audioCtxUnavailable,          \* this._audioCtxUnavailable
  drumEngine,                   \* the page's DrumEngine: pattern selected, its audio fields
  audioOp                       \* history: the audio activity of the last handler

transportVars ==
  << activeProgressionDegrees, progressionPlaybackMode, isProgressionPlaying,
     progressionBeatTimer, progressionAnimationFrame, progressionBeatIndex,
     progressionBpm, pulse, intervals, frames, lastOp, beatLog >>

settingVars ==
  << bricks, isLeftHanded, isVerticallyMirrored, activeRiffBeats, activeStrumBeats,
     activeStrumTimeline, hasDrumEngine >>

\* The pointer devices of the host.
pointerVars == << buttonsHeld, touchCount >>

dragVars ==
  << dragItem, isCreating, offsetCw, dragStartOrigin, dragConstraintVector, pendingDragCopy,
     timeouts, isMousePanning, touchGesture, dragOp, pointerVars >>

audioVars == << hasAudioBackend, musicalKey, audioCtx, audioCtxUnavailable, drumEngine, audioOp >>

vars == << transportVars, settingVars, dragVars, audioVars >>

(***************************************************************************)
(* Coordinates.                                                            *)
(***************************************************************************)
Cell(x, y) == [xCw |-> x, yCw |-> y]

defaultOneCellCenterCw == Cell(14 * U, 7 * U)

WorldXToDisplayX(xCw) == IF isLeftHanded THEN widthCw * U - xCw ELSE xCw
DisplayXToWorldX(xCw) == IF isLeftHanded THEN widthCw * U - xCw ELSE xCw
WorldYToDisplayY(yCw) == IF isVerticallyMirrored THEN heightCw * U - yCw ELSE yCw
DisplayYToWorldY(yCw) == IF isVerticallyMirrored THEN heightCw * U - yCw ELSE yCw

\* _getBrickOriginOffset: the first cell labelled "1" in row-major order, else (2,1).
GetBrickOriginOffset(cellData) ==
  With({rc \in (1..Len(cellData)) \X (1..Len(cellData[1])) :
          cellData[rc[1]][rc[2]] = <<"1">>}, LAMBDA hits :
    IF hits = {} THEN [col |-> 2, row |-> 1]
    ELSE With(CHOOSE rc \in hits :
                \A o \in hits : rc[1] < o[1] \/ (rc[1] = o[1] /\ rc[2] <= o[2]),
              LAMBDA first : [col |-> first[2] - 1, row |-> first[1] - 1]))

\* _getOneCellCenter for this.bricks = items: the lattice origin.
OneCellCenterOf(items) ==
  IF Len(items) = 0 THEN defaultOneCellCenterCw
  ELSE With(GetBrickOriginOffset(BrickCellData), LAMBDA off :
         Cell(items[1].xCw + off.col * U, items[1].yCw + off.row * U))

\* _getOneCellCenter
GetOneCellCenter == OneCellCenterOf(bricks)

\* _getDefaultBrickTopLeft
GetDefaultBrickTopLeft ==
  With(GetBrickOriginOffset(BrickCellData), LAMBDA off :
    Cell(defaultOneCellCenterCw.xCw - off.col * U, defaultOneCellCenterCw.yCw - off.row * U))

\* _semitoneToFretspaceOffset: over y = -3..3 with x = semitone - 5*y, the first y of least score.
FretspaceScore(semitone, y) == Abs(semitone - 5 * y) + Abs(y) * 2

\* Mutant: the offset stays on the row of the origin.
SemitoneToFretspaceOffsetOnRow(semitone) == [x |-> semitone, y |-> 0]

SemitoneToFretspaceOffset(semitone) ==
  With(CHOOSE y \in -3..3 :
         /\ \A o \in -3..3 : FretspaceScore(semitone, y) <= FretspaceScore(semitone, o)
         /\ \A o \in -3..(y-1) : FretspaceScore(semitone, o) > FretspaceScore(semitone, y),
       LAMBDA bestY : [x |-> semitone - 5 * bestY, y |-> bestY])

\* _fretspaceDeltaToWorldFromRoot (deltas in cells)
FretspaceDeltaToWorldFromRoot(rootCell, xDelta, yDelta) ==
  IF ~IsSome(rootCell) THEN None
  ELSE LET rootDisplayX == WorldXToDisplayX(Val(rootCell).xCw)
           rootDisplayY == WorldYToDisplayY(Val(rootCell).yCw)
           displayDeltaX == IF isLeftHanded THEN xDelta ELSE -xDelta
           displayDeltaY == IF isVerticallyMirrored THEN -yDelta ELSE yDelta
       IN Some(Cell(DisplayXToWorldX(rootDisplayX + displayDeltaX * U),
                    DisplayYToWorldY(rootDisplayY + displayDeltaY * U)))

(***************************************************************************)
(* Root cells of the active progression.                                   *)
(***************************************************************************)
\* _cellLabelToSemitoneOffset of every cell label of a Brick.
BrickCellSemitones ==
  [r \in 1..Len(BrickCellData) |->
     [c \in 1..Len(BrickCellData[r]) |-> CellLabelToSemitoneOffset(BrickCellData[r][c])]]

\* Mutant: every row is scanned, whatever the first row asked for.
MatchingCellsInAnyRow(semitone, fromRow) ==
  {rc \in (0..(Len(BrickCellData) - 1)) \X (0..(Len(BrickCellData[1]) - 1)) :
     BrickCellSemitones[rc[1] + 1][rc[2] + 1] = Some(semitone)}

\* The cells (0-based <<r, c>>) of rows from..Len-1 whose label has the semitone.
MatchingCells(semitone, fromRow) ==
  {rc \in (fromRow..(Len(BrickCellData) - 1)) \X (0..(Len(BrickCellData[1]) - 1)) :
     BrickCellSemitones[rc[1] + 1][rc[2] + 1] = Some(semitone)}

\* Mutant: the scan runs over the second coordinate first.
ColumnMajorBefore(a, b) == a[2] < b[2] \/ (a[2] = b[2] /\ a[1] <= b[1])

RowMajorBefore(a, b) == a[1] < b[1] \/ (a[1] = b[1] /\ a[2] <= b[2])

\* _findRootCellInFirstBrick: bottom two rows only, first match in row-major order.
FindRootCellInFirstBrick(degreeToken) ==
  IF Len(bricks) = 0 THEN None
  ELSE With(DegreeToSemitoneOffset(degreeToken), LAMBDA targetSemitone :
    IF ~IsSome(targetSemitone) THEN None
    ELSE With(MatchingCells(Val(targetSemitone), Max(0, Len(BrickCellData) - 2)), LAMBDA hits :
      IF hits = {} THEN None
      ELSE With(CHOOSE h \in hits : \A o \in hits : RowMajorBefore(h, o), LAMBDA rc :
             Some(Cell(bricks[1].xCw + rc[2] * U, bricks[1].yCw + rc[1] * U)))))

\* _findRootCellOnTopStringsInFirstBrick: the same scan.
FindRootCellOnTopStringsInFirstBrick(degreeToken) == FindRootCellInFirstBrick(degreeToken)

SqDist(a, b) == (a.xCw - b.xCw) * (a.xCw - b.xCw) + (a.yCw - b.yCw) * (a.yCw - b.yCw)

\* Mutant: the first cell of the semitone in row-major order, however far.
FindFirstCellInFirstBrickBySemitone(targetSemitone, referenceCell) ==
  IF Len(bricks) = 0 THEN None
  ELSE With(MatchingCells(targetSemitone, 0), LAMBDA hits :
    IF hits = {} THEN None
    ELSE With(CHOOSE h \in hits : \A o \in hits : RowMajorBefore(h, o), LAMBDA rc :
           Some(Cell(bricks[1].xCw + rc[2] * U, bricks[1].yCw + rc[1] * U))))

\* _findNearestCellInFirstBrickBySemitone (referenceCell is never null at its call site)
CellOfFirstBrick(rc) == Cell(bricks[1].xCw + rc[2] * U, bricks[1].yCw + rc[1] * U)

FindNearestCellInFirstBrickBySemitone(targetSemitone, referenceCell) ==
  IF Len(bricks) = 0 THEN None
  ELSE With(MatchingCells(targetSemitone, 0), LAMBDA hits :
    IF hits = {} THEN None
    ELSE Some(CellOfFirstBrick(
           CHOOSE h \in hits :
             /\ \A o \in hits : SqDist(CellOfFirstBrick(h), referenceCell)
                                   <= SqDist(CellOfFirstBrick(o), referenceCell)
             /\ \A o \in hits : SqDist(CellOfFirstBrick(o), referenceCell)
                                   = SqDist(CellOfFirstBrick(h), referenceCell)
                                   => RowMajorBefore(h, o))))

\* Mutant: a token without a semitone is given the lattice origin as its root.
RootEntryForAnyToken(token) ==
  With(FindRootCellInFirstBrick(token), LAMBDA rootCell :
    Some([degreeToken |-> token,
          rootCell |-> IF IsSome(rootCell) THEN Val(rootCell) ELSE GetOneCellCenter]))

\* One entry of _getActiveProgressionRootEntries for a token: None when skipped.
RootEntryFor(token) ==
  With(FindRootCellInFirstBrick(token), LAMBDA rootCell :
    IF Len(bricks) > 0 /\ IsSome(rootCell)
    THEN Some([degreeToken |-> token, rootCell |-> Val(rootCell)])
    ELSE With(DegreeToSemitoneOffset(token), LAMBDA semitone :
      IF ~IsSome(semitone) THEN None
      ELSE With(SemitoneToFretspaceOffset(Val(semitone)), LAMBDA offset :
           With(FretspaceDeltaToWorldFromRoot(Some(GetOneCellCenter), offset.x, offset.y),
                LAMBDA fallbackRoot :
             IF ~IsSome(fallbackRoot) THEN None
             ELSE Some([degreeToken |-> token, rootCell |-> Val(fallbackRoot)])))))

RECURSIVE RootEntriesOf(_)
RootEntriesOf(tokens) ==
  IF tokens = <<>> THEN <<>>
  ELSE RootEntryFor(Head(tokens)) \o RootEntriesOf(Tail(tokens))

\* _getActiveProgressionRootEntries, for this._activeProgressionDegrees = degrees
RootEntriesFor(degrees) ==
  IF ~IsSome(degrees) \/ Len(Val(degrees)) = 0 THEN <<>>
  ELSE RootEntriesOf(Val(degrees))

GetActiveProgressionRootEntries == RootEntriesFor(activeProgressionDegrees)

\* Mutant: a path is assumed whenever the progression lists any token.
HasProgressionPathByTokenCount(degrees) == IsSome(degrees) /\ Len(Val(degrees)) > 0

\* hasProgressionPath (via _getActiveProgressionRootCells), for the given degrees
HasProgressionPathFor(degrees) == Len(RootEntriesFor(degrees)) > 0

\* Mutant: start takes a path for granted.
HasProgressionPathAssumed == TRUE

HasProgressionPath == HasProgressionPathFor(activeProgressionDegrees)

(***************************************************************************)
(* Chord shapes.                                                           *)
(***************************************************************************)
\* _getCellAboveInFirstBrick
GetCellAboveInFirstBrick(cell) ==
  IF Len(bricks) = 0 THEN None
  ELSE LET minY == bricks[1].yCw
           maxY == bricks[1].yCw + (brickHeightCw - 1) * U
       IN IF cell.yCw - U < minY \/ cell.yCw - U > maxY THEN None
          ELSE Some(Cell(cell.xCw, cell.yCw - U))

\* Mutant: an index past the end stays on the last entry.
NormalizedIndexClamped(index, n) == Min(index, n - 1)

NormalizedIndex(index, n) == index % n

\* _getChordShapeForRootIndex: None or Some([root, third, fifth]).
\* The third of a chord: the nearest cell of the third's semitone, if any.
ThirdCellFor(thirdSemitone, root) ==
  IF ~IsSome(thirdSemitone) THEN None
  ELSE FindNearestCellInFirstBrickBySemitone(Val(thirdSemitone), root)

GetChordShapeForRootIndex(rootEntries, rootIndex) ==
  IF Len(rootEntries) = 0 THEN None
  ELSE With(rootEntries[NormalizedIndex(rootIndex, Len(rootEntries)) + 1], LAMBDA entry :
         Some([root |-> entry.rootCell,
               third |-> Val(OrElse(ThirdCellFor(GetThirdSemitoneOffsetForDegree(entry.degreeToken),
                                                 entry.rootCell),
                                    Some(entry.rootCell))),
               fifth |-> Val(OrElse(GetCellAboveInFirstBrick(entry.rootCell),
                                    Some(entry.rootCell)))]))

\* _getEshape513ForDegreeToken
\* The interval from the root to the third of a degree: 3 when either is unknown.
ThirdInterval(rootSemitone, thirdSemitone) ==
  IF ~IsSome(rootSemitone) \/ ~IsSome(thirdSemitone) THEN 3
  ELSE (Val(thirdSemitone) - Val(rootSemitone) + 12) % 12

GetEshape513ForDegreeToken(degreeToken, fallbackShape) ==
  IF ~IsSome(fallbackShape) THEN None
  ELSE With(OrElse(FindRootCellOnTopStringsInFirstBrick(degreeToken),
                   Some(Val(fallbackShape).root)), LAMBDA root :
       With(ThirdInterval(DegreeToSemitoneOffset(degreeToken),
                          GetThirdSemitoneOffsetForDegree(degreeToken)), LAMBDA thirdInterval :
         Some([root |-> Val(root),
               third |-> Val(OrElse(FretspaceDeltaToWorldFromRoot(
                                      root, IF thirdInterval = 4 THEN -1 ELSE -2, 1),
                                    Some(Val(fallbackShape).third))),
               fifth |-> Val(OrElse(FretspaceDeltaToWorldFromRoot(root, 0, -1),
                                    Some(Val(fallbackShape).fifth)))])))

\* Mutant: the C shape is the E shape, fifth included.
GetCshape1351AsEshape(degreeToken, fallbackShape) ==
  GetEshape513ForDegreeToken(degreeToken, fallbackShape)

\* _getCshape1351ForDegreeToken
GetCshape1351ForDegreeToken(degreeToken, fallbackShape) ==
  With(GetEshape513ForDegreeToken(degreeToken, fallbackShape), LAMBDA eshape :
    IF ~IsSome(eshape) THEN fallbackShape
    ELSE Some([root |-> Val(eshape).root,
               third |-> Val(eshape).third,
               fifth |-> Val(OrElse(FretspaceDeltaToWorldFromRoot(Some(Val(eshape).root), -3, 2),
                                    Some(Val(eshape).fifth)))]))

PlaybackModes == {"root", "root5th", "arpeggio135", "eshape513", "cshape1351"}

\* _getBassRunSpec
BassRunSpecs(mode) ==
  CASE mode = "root5th" ->
         [sequence |-> <<"root", "fifth", "root", "fifth">>, shapeStrategy |-> "default",
          guideSequence |-> <<"root", "fifth">>]
    [] mode = "arpeggio135" ->
         [sequence |-> <<"root", "third", "fifth", "root">>, shapeStrategy |-> "default",
          guideSequence |-> <<"root", "third", "fifth">>]
    [] mode = "eshape513" ->
         [sequence |-> <<"root", "third", "fifth", "root">>, shapeStrategy |-> "eshape513",
          guideSequence |-> <<"root", "third", "fifth">>]
    [] mode = "cshape1351" ->
         [sequence |-> <<"root", "third", "fifth", "root">>, shapeStrategy |-> "cshape1351",
          guideSequence |-> <<"root", "third", "fifth", "root">>]
    [] OTHER ->
         [sequence |-> <<"root", "root", "root", "root">>, shapeStrategy |-> "default",
          guideSequence |-> <<>>]

GetBassRunSpec == BassRunSpecs(progressionPlaybackMode)

\* _getBassRunShapeForChordIndex
GetBassRunShapeForChordIndex(rootEntries, chordIndex, shapeStrategy) ==
  IF Len(rootEntries) = 0 THEN None
  ELSE With(NormalizedIndex(chordIndex, Len(rootEntries)), LAMBDA normalized :
       With(GetChordShapeForRootIndex(rootEntries, normalized), LAMBDA shape :
         IF ~IsSome(shape) THEN None
         ELSE IF shapeStrategy = "eshape513"
              THEN GetEshape513ForDegreeToken(rootEntries[normalized + 1].degreeToken, shape)
         ELSE IF shapeStrategy = "cshape1351"
              THEN GetCshape1351ForDegreeToken(rootEntries[normalized + 1].degreeToken, shape)
         ELSE shape))

\* _resolveBassRunTokenCell (shape is a shape, never null, at its call sites)
ResolveBassRunTokenCell(shape, token) ==
  IF token = "rest" THEN None
  ELSE IF token = "hold" THEN Some(shape.root)
  ELSE IF token = "third" THEN Some(shape.third)
  ELSE IF token = "fifth" THEN Some(shape.fifth)
  ELSE Some(shape.root)

NoteEvent(kind, cell, delayBeats, durationBeats) ==
  [kind |-> kind, cell |-> cell, delayBeats |-> delayBeats, durationBeats |-> durationBeats]

\* _buildBassRunNoteEvents
BuildBassRunNoteEvents(shape, token) ==
  IF token = "rest" \/ token = "hold" THEN <<>>
  ELSE With(ResolveBassRunTokenCell(shape, token), LAMBDA cell :
         IF IsSome(cell) THEN << NoteEvent("note", cell, 0, 1 * BeatUnit) >> ELSE <<>>)

(***************************************************************************)
(* Strum patterns.                                                         *)
(***************************************************************************)
LowerChar(c) ==
  CASE c = "D" -> "d"
    [] c = "U" -> "u"
    [] c = "S" -> "s"
    [] OTHER -> c

RECURSIVE KeepStrumSymbols(_)
KeepStrumSymbols(s) ==
  IF s = <<>> THEN <<>>
  ELSE LET c == LowerChar(Head(s)) IN
       (IF c \in {"d", "u", "s", "-"} THEN <<c>> ELSE <<>>) \o KeepStrumSymbols(Tail(s))

\* _normalizeStrumBeatToken: only d/u/s/- survive; an empty result is "-".
NormalizeStrumBeatToken(token) ==
  LET kept == KeepStrumSymbols(IF token.str THEN token.s ELSE <<>>) IN
  IF kept = <<>> THEN <<"-">> ELSE kept

\* _parseStrumPatternBeats (beatsValue an array of tokens)
ParseStrumPatternBeats(beatsValue) ==
  [i \in 1..progressionBeatsPerChord |->
     NormalizeStrumBeatToken(IF i <= Len(beatsValue) THEN beatsValue[i] ELSE Str(<<"-">>))]

\* The timeline actions of one beat token (beat 0-based, step 0-based).
RECURSIVE StrumStepsFrom(_, _, _)
StrumStepsFrom(steps, beat, step) ==
  IF step >= Len(steps) THEN <<>>
  ELSE (IF steps[step + 1] \in {"d", "u", "s"}
        THEN << [symbol |-> steps[step + 1],
                 time |-> beat * BeatUnit + (step * BeatUnit) \div Max(1, Len(steps))] >>
        ELSE <<>>) \o StrumStepsFrom(steps, beat, step + 1)

RECURSIVE StrumTimelineFrom(_, _)
StrumTimelineFrom(strumBeats, beat) ==
  IF beat >= progressionBeatsPerChord THEN <<>>
  ELSE StrumStepsFrom(NormalizeStrumBeatToken(Str(strumBeats[beat + 1])), beat, 0)
       \o StrumTimelineFrom(strumBeats, beat + 1)

\* _buildStrumTimeline
BuildStrumTimeline(strumBeats) ==
  IF Len(strumBeats) = 0 THEN <<>> ELSE StrumTimelineFrom(strumBeats, 0)

\* Mutant: the gap between the strings is the minimum, 0.01 beats.
StrokeDelayAtMinimum == BeatUnit \div 100

\* Math.max(0.01, this._strumStrokeGapBeats || 0.05) with the gap 0.05 beats.
StrokeDelay == Max(BeatUnit \div 100, BeatUnit \div 20)

\* Mutant: a stroke rings to the end of the bar whatever follows it.
NextBoundaryAtBarEnd(timeline, i) == progressionBeatsPerChord * BeatUnit

\* The boundary a stroke may ring to: the next later action, at most the bar's end.
NextBoundary(timeline, i) ==
  LET barBeats == progressionBeatsPerChord * BeatUnit
      later == {n \in (i + 1)..Len(timeline) : timeline[n].time > timeline[i].time}
  IN IF later = {} THEN barBeats
     ELSE Min(barBeats, timeline[CHOOSE n \in later : \A o \in later : n <= o].time)

RECURSIVE StrokeEventsFrom(_, _, _, _, _, _)
StrokeEventsFrom(shape, order, step, actionTime, nextBoundary, beatStart) ==
  IF step >= Len(order) THEN <<>>
  ELSE LET strikeCell == ResolveBassRunTokenCell(shape, order[step + 1])
           strikeBeat == actionTime + step * StrokeDelay
           delayBeats == strikeBeat - beatStart
           barBeats == progressionBeatsPerChord * BeatUnit
           skip == \/ ~IsSome(strikeCell)
                   \/ strikeBeat >= nextBoundary \/ strikeBeat >= barBeats
                   \/ delayBeats < 0 \/ delayBeats >= BeatUnit
       IN (IF skip THEN <<>>
           ELSE << NoteEvent("strum", strikeCell, delayBeats,
                             Max(BeatUnit \div 20, nextBoundary - strikeBeat)) >>)
          \o StrokeEventsFrom(shape, order, step + 1, actionTime, nextBoundary, beatStart)

RECURSIVE StrumEventsFrom(_, _, _, _)
StrumEventsFrom(shape, timeline, i, beatInChord) ==
  IF i > Len(timeline) THEN <<>>
  ELSE LET action == timeline[i]
           beatStart == beatInChord * BeatUnit
           beatEnd == beatStart + BeatUnit
           here ==
             IF action.time < beatStart \/ action.time >= beatEnd THEN <<>>
             ELSE IF action.symbol = "s"
             THEN << NoteEvent("slap", Some(shape.root), action.time - beatStart,
                               (8 * BeatUnit) \div 100) >>
             ELSE IF action.symbol \notin {"d", "u"} THEN <<>>
             ELSE StrokeEventsFrom(shape,
                    IF action.symbol = "u" THEN <<"fifth", "third", "root">>
                                           ELSE <<"root", "third", "fifth">>,
                    0, action.time, NextBoundary(timeline, i), beatStart)
       IN here \o StrumEventsFrom(shape, timeline, i + 1, beatInChord)

\* _buildStrumNoteEventsForBeat
BuildStrumNoteEventsForBeat(shape, beatInChord) ==
  IF ~IsSome(activeStrumTimeline) \/ Len(Val(activeStrumTimeline)) = 0 THEN <<>>
  ELSE StrumEventsFrom(shape, Val(activeStrumTimeline), 1, beatInChord)

(***************************************************************************)
(* The beat plan.                                                          *)
(***************************************************************************)
RECURSIVE RiffPoints(_, _)
RiffPoints(root, riffBeat) ==
  IF riffBeat = <<>> THEN <<>>
  ELSE FretspaceDeltaToWorldFromRoot(Some(root), Head(riffBeat).x, Head(riffBeat).y)
       \o RiffPoints(root, Tail(riffBeat))

EventCells(events) == [i \in 1..Len(events) |-> Val(events[i].cell)]

HasStrum ==
  IsSome(activeStrumBeats) /\ Len(Val(activeStrumBeats)) = progressionBeatsPerChord

\* The riff's points of a beat: empty without a four-beat riff.
RiffCellsFor(shape, beatInChord) ==
  IF IsSome(activeRiffBeats) /\ Len(Val(activeRiffBeats)) = 4
  THEN RiffPoints(shape.root, Val(activeRiffBeats)[(beatInChord % 4) + 1])
  ELSE <<>>

\* Mutant: an active strum pattern is consulted before the riff.
PlanNoteEventsStrumFirst(shape, token, beatInChord, riffCells) ==
  IF HasStrum THEN BuildStrumNoteEventsForBeat(shape, beatInChord)
  ELSE IF Len(riffCells) > 0
  THEN [i \in 1..Len(riffCells) |-> NoteEvent("note", Some(riffCells[i]), 0, 1 * BeatUnit)]
  ELSE BuildBassRunNoteEvents(shape, token)

\* The timed events of a beat by precedence: riff, then strum, then bass run.
PlanNoteEvents(shape, token, beatInChord, riffCells) ==
  IF Len(riffCells) > 0
  THEN [i \in 1..Len(riffCells) |-> NoteEvent("note", Some(riffCells[i]), 0, 1 * BeatUnit)]
  ELSE IF HasStrum THEN BuildStrumNoteEventsForBeat(shape, beatInChord)
  ELSE BuildBassRunNoteEvents(shape, token)

\* The cells of a beat: the events' cells, the root for a silent strum beat,
\* the token's cell when nothing else is there.
PlanNoteCells(shape, tokenCell, riffCells, noteEvents) ==
  IF Len(riffCells) > 0 THEN riffCells
  ELSE IF Len(noteEvents) > 0 THEN EventCells(noteEvents)
  ELSE IF HasStrum THEN << shape.root >>
  ELSE IF IsSome(tokenCell) THEN << Val(tokenCell) >>
  ELSE <<>>

\* _getBassRunRestAnchor
GetBassRunRestAnchor(rootEntries, chordIndex, shapeStrategy) ==
  With(GetBassRunShapeForChordIndex(rootEntries, chordIndex + 1, shapeStrategy),
       LAMBDA nextShape : IF IsSome(nextShape) THEN Some(Val(nextShape).root) ELSE None)

\* The plan of a beat whose shape, token and cells are known.
PlanOf(shape, token, noteCell, noteCells, noteEvents, rootEntries, chordIndex, shapeStrategy) ==
  [noteCell |-> noteCell, noteCells |-> noteCells, noteEvents |-> noteEvents,
   anchorCell |-> IF ~IsSome(noteCell) /\ token = "rest"
                  THEN GetBassRunRestAnchor(rootEntries, chordIndex, shapeStrategy)
                  ELSE noteCell,
   shape |-> shape]

\* Mutant: the shape follows the selected mode under a strum pattern too.
ShapeStrategyOfMode(spec) == spec.shapeStrategy

\* shapeSpec of _getProgressionBeatPlan: cshape1351 under a strum pattern.
ShapeStrategy(spec) == IF HasStrum THEN "cshape1351" ELSE spec.shapeStrategy

\* _getProgressionBeatPlan: None or Some(plan).
GetProgressionBeatPlan(beatIndex, rootEntries) ==
  IF Len(rootEntries) = 0 THEN None
  ELSE
    With(GetBassRunSpec, LAMBDA spec :
    With(beatIndex \div progressionBeatsPerChord, LAMBDA chordIndex :
    With(beatIndex % progressionBeatsPerChord, LAMBDA beatInChord :
    With(GetBassRunShapeForChordIndex(rootEntries, chordIndex, ShapeStrategy(spec)),
         LAMBDA shapeOpt :
      IF ~IsSome(shapeOpt) THEN None
      ELSE
        With(Val(shapeOpt), LAMBDA shape :
        With(IF HasStrum THEN "hold"
             ELSE spec.sequence[(beatInChord % Len(spec.sequence)) + 1], LAMBDA token :
        With(ResolveBassRunTokenCell(shape, token), LAMBDA tokenCell :
        With(RiffCellsFor(shape, beatInChord), LAMBDA riffCells :
        With(PlanNoteEvents(shape, token, beatInChord, riffCells), LAMBDA noteEvents :
        With(PlanNoteCells(shape, tokenCell, riffCells, noteEvents), LAMBDA noteCells :
          Some(PlanOf(shape, token,
                      IF Len(noteCells) > 0 THEN Some(noteCells[1]) ELSE tokenCell,
                      noteCells, noteEvents, rootEntries, chordIndex,
                      spec.shapeStrategy))))))))))))

(***************************************************************************)
(* Audio.  An engine's audio fields are a = [ctx, unavailable]; a sound    *)
(* state s = [a, log] carries them through the calls of one handler with   *)
(* what the calls did: the calls of _getAudioContext, the reads of the     *)
(* host's AudioContext constructor, the contexts constructed and the       *)
(* voices started.                                                         *)
(***************************************************************************)
NoAudio == [calls |-> 0, lookups |-> 0, created |-> 0, sounded |-> <<>>, raised |-> FALSE]

NoAudioOp == [tone |-> NoAudio, drum |-> NoAudio]

\* Mutant: the missing constructor is looked up again on every call.
GetAudioContextWithoutCache(s) ==
  With([s EXCEPT !.log.calls = @ + 1], LAMBDA s1 :
    IF s1.a.unavailable THEN [s |-> s1, ctx |-> FALSE]
    ELSE IF s1.a.ctx THEN [s |-> s1, ctx |-> TRUE]
    ELSE IF ~hasAudioBackend
    THEN [s |-> [s1 EXCEPT !.log.lookups = @ + 1], ctx |-> FALSE]
    ELSE [s |-> [s1 EXCEPT !.a.ctx = TRUE, !.log.lookups = @ + 1, !.log.created = @ + 1],
          ctx |-> TRUE])

\* _getAudioContext (Fretscape and DrumEngine alike): the state after the call
\* and whether a context was returned.
GetAudioContext(s) ==
  With([s EXCEPT !.log.calls = @ + 1], LAMBDA s1 :
    IF s1.a.unavailable THEN [s |-> s1, ctx |-> FALSE]
    ELSE IF s1.a.ctx THEN [s |-> s1, ctx |-> TRUE]
    ELSE IF ~hasAudioBackend
    THEN [s |-> [s1 EXCEPT !.a.unavailable = TRUE, !.log.lookups = @ + 1], ctx |-> FALSE]
    ELSE [s |-> [s1 EXCEPT !.a.ctx = TRUE, !.log.lookups = @ + 1, !.log.created = @ + 1],
          ctx |-> TRUE])

\* One voice (_playDotTone, _playSlapTone, _triggerKick, ...): it asks for the
\* context and returns without a sound when there is none.
PlayVoice(s, voice) ==
  With(GetAudioContext(s), LAMBDA g :
    IF g.ctx THEN [g.s EXCEPT !.log.sounded = Append(@, voice)] ELSE g.s)

\* The voices of a list of calls, in order.
RECURSIVE PlayVoices(_, _)
PlayVoices(s, voices) ==
  IF voices = <<>> THEN s ELSE PlayVoices(PlayVoice(s, Head(voices)), Tail(voices))

(***************************************************************************)
(* The drum engine: drum = [patterns, selectedPatternId, audio].  A        *)
(* pattern is [id, beats], its beats the drum names of each beat (the      *)
(* letters of the dataset after _parseBeatTokens and the key map).         *)
(***************************************************************************)
\* The drum names of the four beats of a pattern: kick and hat, hat, snare and hat,
\* nothing.
DrumPattern == << <<"kick", "hat">>, <<"hat">>, <<"snare", "hat">>, <<>> >>

\* new DrumEngine()
NewDrumEngine ==
  [patterns |-> <<>>, selectedPatternId |-> "",
   audio |-> [ctx |-> FALSE, unavailable |-> FALSE]]

\* Property names every object inherits: this._patternById[name] is a function for
\* them although no pattern has the id.
InheritedNames == {"constructor", "toString"}

\* this._patternById[patternId]: the last pattern loaded with the id, an inherited
\* property for an inherited name, else undefined.
PatternById(drum, patternId) ==
  With({i \in 1..Len(drum.patterns) : drum.patterns[i].id = patternId}, LAMBDA own :
    IF own # {}
    THEN [kind |-> "pattern",
          beats |-> drum.patterns[CHOOSE i \in own : \A j \in own : j <= i].beats]
    ELSE IF patternId \in InheritedNames THEN [kind |-> "inherited", beats |-> <<>>]
    ELSE [kind |-> "undefined", beats |-> <<>>])

\* this._patternById[patternId] is truthy
HasPatternById(drum, patternId) == PatternById(drum, patternId).kind # "undefined"

\* DrumEngine.hasSelectedPattern
HasSelectedPattern(drum) ==
  drum.selectedPatternId # "" /\ HasPatternById(drum, drum.selectedPatternId)

\* Mutant: the selection is left alone when the dataset is replaced.
SetDrumbeatsKeepingSelection(drum, drumbeats) ==
  [drum EXCEPT !.patterns =
     IF IsSome(drumbeats) THEN SelectSeq(Val(drumbeats), LAMBDA p : Len(p.beats) = 4)
     ELSE <<>>]

\* DrumEngine.setDrumbeats: None for a dataset without patterns, else Some(patterns);
\* a pattern without exactly four beats is dropped (ids and names are strings).
SetDrumbeatsOn(drum, drumbeats) ==
  With(IF IsSome(drumbeats) THEN SelectSeq(Val(drumbeats), LAMBDA p : Len(p.beats) = 4)
       ELSE <<>>, LAMBDA patterns :
  With([drum EXCEPT !.patterns = patterns], LAMBDA loaded :
    IF loaded.selectedPatternId = "" \/ ~HasPatternById(loaded, loaded.selectedPatternId)
    THEN [loaded EXCEPT !.selectedPatternId =
            IF Len(patterns) > 0 THEN patterns[1].id ELSE ""]
    ELSE loaded))

\* DrumEngine.setSelectedPattern
SetSelectedPatternOn(drum, patternId) ==
  IF patternId = "" \/ ~HasPatternById(drum, patternId)
  THEN [drum EXCEPT !.selectedPatternId = ""]
  ELSE [drum EXCEPT !.selectedPatternId = patternId]

\* DrumEngine.playBeat: with an inherited property selected, pattern.beats is
\* undefined and reading pattern.beats[idx] raises a TypeError.
DrumEnginePlayBeat(drum, log, beatIndex) ==
  IF ~HasSelectedPattern(drum) THEN [a |-> drum.audio, log |-> log]
  ELSE With(PatternById(drum, drum.selectedPatternId), LAMBDA pattern :
    IF pattern.kind = "inherited"
    THEN [a |-> drum.audio, log |-> [log EXCEPT !.raised = TRUE]]
    ELSE With(pattern.beats[(beatIndex % 4) + 1], LAMBDA tokens :
      IF Len(tokens) = 0 THEN [a |-> drum.audio, log |-> log]
      ELSE With(GetAudioContext([a |-> drum.audio, log |-> log]), LAMBDA g :
             IF ~g.ctx THEN g.s ELSE PlayVoices(g.s, tokens))))

(***************************************************************************)
(* The transport.  The operators below take and return the transport       *)
(* state t, a record of the fields a handler and the calls it makes may    *)
(* change; an action applies one handler to the current state.             *)
(***************************************************************************)
ClearedPulse ==
  [fromCell |-> None, toCell |-> None, fromCells |-> <<>>, toCells |-> <<>>, progress |-> 0,
   guidePairFrom |-> None, guidePairTo |-> None]

\* _clearProgressionPulse (the guide pairs are not part of it)
ClearProgressionPulse(p) ==
  [p EXCEPT !.fromCell = None, !.toCell = None, !.fromCells = <<>>, !.toCells = <<>>,
            !.progress = 0]

\* The smallest handle the host has not handed out and still holds.
FreshId(used) ==
  CHOOSE i \in 1..(Cardinality(used) + 1) : i \notin used /\ \A j \in 1..(i - 1) : j \in used

Transport ==
  [playing |-> isProgressionPlaying, timer |-> progressionBeatTimer,
   frame |-> progressionAnimationFrame, beatIndex |-> progressionBeatIndex,
   bpm |-> progressionBpm, pulse |-> pulse, intervals |-> intervals, frames |-> frames,
   notified |-> 0, dispatched |-> <<>>,
   audio |-> [ctx |-> audioCtx, unavailable |-> audioCtxUnavailable], heard |-> NoAudio,
   drum |-> drumEngine, drumHeard |-> NoAudio]

\* window.clearInterval(handle)
ClearInterval(live, handle) == {iv \in live : iv.id # handle}

\* _notifyProgressionPlaybackStateChange (the subscriber only reads the transport)
NotifyProgressionPlaybackStateChange(t) == [t EXCEPT !.notified = t.notified + 1]

\* Mutant: the handle is dropped without cancelAnimationFrame.
StopProgressionPulseLoopWithoutCancel(t) == [t EXCEPT !.frame = 0]

\* _stopProgressionPulseLoop
StopProgressionPulseLoop(t) ==
  IF t.frame = 0 THEN t
  ELSE [t EXCEPT !.frames = t.frames \ {t.frame}, !.frame = 0]

\* _startProgressionPulseLoop
StartProgressionPulseLoop(t) ==
  IF t.frame # 0 THEN t
  ELSE With(FreshId(t.frames), LAMBDA id :
         [t EXCEPT !.frames = t.frames \cup {id}, !.frame = id])

\* stopProgressionPlayback
\* Mutant: the handle is dropped without clearInterval.
ClearBeatTimerWithoutClearInterval(t) == [t EXCEPT !.timer = 0]

\* if (timer !== null) { window.clearInterval(timer); timer = null; }
ClearBeatTimer(t) ==
  IF t.timer # 0
  THEN [t EXCEPT !.intervals = ClearInterval(t.intervals, t.timer), !.timer = 0]
  ELSE t

\* The fields stopProgressionPlayback resets.
ResetTransport(t) ==
  [t EXCEPT !.playing = FALSE, !.beatIndex = 0,
            !.pulse = [ClearProgressionPulse(t.pulse) EXCEPT
                         !.guidePairFrom = None, !.guidePairTo = None]]

\* Mutant: the subscriber is notified by every stop.
NotifyAlways(wasPlaying, t) == NotifyProgressionPlaybackStateChange(t)

NotifyIf(wasPlaying, t) ==
  IF wasPlaying THEN NotifyProgressionPlaybackStateChange(t) ELSE t

\* Mutant: stop leaves the beat clock armed.
StopProgressionPlaybackKeepingClock(t) ==
  NotifyIf(t.playing, StopProgressionPulseLoop(ResetTransport(t)))

\* stopProgressionPlayback
StopProgressionPlayback(t) ==
  NotifyIf(t.playing, StopProgressionPulseLoop(ResetTransport(ClearBeatTimer(t))))

\* _getProgressionBeatMs: 60000 / bpm milliseconds, as the fraction num / den.
GetProgressionBeatMs(bpm) == [num |-> MsPerMinute, den |-> bpm]

\* window.setInterval(callback, _getProgressionBeatMs())
SetInterval(t) ==
  With(FreshId({iv.id : iv \in t.intervals}), LAMBDA id :
    [t EXCEPT !.intervals = t.intervals \cup {[id |-> id, ms |-> GetProgressionBeatMs(t.bpm)]},
              !.timer = id])

\* Mutant: restarting the clock also restarts the bar.
RestartProgressionBeatTimerFromZero(t) ==
  With(ClearBeatTimer(t), LAMBDA t1 :
    IF ~t1.playing THEN t1 ELSE [SetInterval(t1) EXCEPT !.beatIndex = 0])

\* _restartProgressionBeatTimer
RestartProgressionBeatTimer(t) ==
  With(ClearBeatTimer(t), LAMBDA t1 : IF ~t1.playing THEN t1 ELSE SetInterval(t1))

\* Mutant: a slap event is sounded on its cell like any other event.
RECURSIVE ToneCallsWithoutSlap(_, _)
ToneCallsWithoutSlap(events, bpm) ==
  IF events = <<>> THEN <<>>
  ELSE (IF ~IsSome(Head(events).cell) THEN <<>>
        ELSE << [voice |-> "tone", cell |-> Head(events).cell,
                 delayBeats |-> Head(events).delayBeats, bpm |-> bpm] >>)
       \o ToneCallsWithoutSlap(Tail(events), bpm)

\* The audio calls of one beat: a slap for a slap event, a pitched tone for an
\* event with a cell (delaySec = delayBeats * 60 / bpm).
RECURSIVE ToneCalls(_, _)
ToneCalls(events, bpm) ==
  IF events = <<>> THEN <<>>
  ELSE (IF Head(events).kind = "slap"
        THEN << [voice |-> "slap", cell |-> None, delayBeats |-> Head(events).delayBeats,
                 bpm |-> bpm] >>
        ELSE IF ~IsSome(Head(events).cell) THEN <<>>
        ELSE << [voice |-> "tone", cell |-> Head(events).cell,
                 delayBeats |-> Head(events).delayBeats, bpm |-> bpm] >>)
       \o ToneCalls(Tail(events), bpm)

\* The interpolation endpoints _playProgressionBeat records from the anchors.
PulseEndpoints(oldPulse, currentNotes, nextNotes, currentAnchor, nextAnchor) ==
  IF IsSome(currentAnchor)
  THEN [oldPulse EXCEPT
          !.fromCell = currentAnchor,
          !.toCell = OrElse(nextAnchor, currentAnchor),
          !.fromCells = IF Len(currentNotes) > 0 THEN currentNotes
                        ELSE << Val(currentAnchor) >>,
          !.toCells = IF Len(nextNotes) > 0 THEN nextNotes
                      ELSE IF IsSome(nextAnchor) THEN << Val(nextAnchor) >>
                      ELSE << Val(currentAnchor) >>]
  ELSE ClearProgressionPulse(oldPulse)

\* The pulse after a beat: endpoints, guide pair, progress 0.
BeatPulse(currentPlan, nextPlanOpt, oldPulse) ==
  With(IF IsSome(nextPlanOpt) THEN Val(nextPlanOpt).noteCells ELSE <<>>, LAMBDA nextNotes :
  With(OrElse(currentPlan.anchorCell,
              IF Len(currentPlan.noteCells) > 0 THEN Some(currentPlan.noteCells[1]) ELSE None),
       LAMBDA currentAnchor :
  With(OrElse(IF IsSome(nextPlanOpt) THEN Val(nextPlanOpt).anchorCell ELSE None,
              IF Len(nextNotes) > 0 THEN Some(nextNotes[1]) ELSE currentAnchor),
       LAMBDA nextAnchor :
    [PulseEndpoints(oldPulse, currentPlan.noteCells, nextNotes, currentAnchor, nextAnchor)
       EXCEPT !.guidePairFrom = Some(currentPlan.shape),
              !.guidePairTo = Some(IF IsSome(nextPlanOpt) THEN Val(nextPlanOpt).shape
                                   ELSE currentPlan.shape),
              !.progress = 0])))

\* What one beat hands to the drum engine and the audio graph.
BeatDispatch(t, currentPlan) ==
  [beat |-> t.beatIndex,
   drum |-> IF hasDrumEngine THEN Some(t.beatIndex % 4) ELSE None,
   calls |-> ToneCalls(currentPlan.noteEvents, t.bpm)]

\* The voice each call of ToneCalls asks for.
CallVoices(calls) == [i \in 1..Len(calls) |-> calls[i].voice]

\* _playDrumBeat, then the _playSlapTone / _playDotTone calls of the beat's events.
PlayBeatSounds(t, currentPlan) ==
  With(IF hasDrumEngine THEN DrumEnginePlayBeat(t.drum, t.drumHeard, t.beatIndex % 4)
       ELSE [a |-> t.drum.audio, log |-> t.drumHeard], LAMBDA d :
  With(PlayVoices([a |-> t.audio, log |-> t.heard],
                  CallVoices(ToneCalls(currentPlan.noteEvents, t.bpm))), LAMBDA s :
    [t EXCEPT !.drum.audio = d.a, !.drumHeard = d.log, !.audio = s.a, !.heard = s.log]))

\* Mutant: the beat is played but the beat index is not advanced.
PlayPlannedBeatWithoutAdvance(t, currentPlan, nextPlan) ==
  IF ~IsSome(currentPlan) THEN StopProgressionPlayback(t)
  ELSE StartProgressionPulseLoop(
         [PlayBeatSounds(t, Val(currentPlan)) EXCEPT !.dispatched = Append(t.dispatched, BeatDispatch(t, Val(currentPlan))),
                   !.pulse = BeatPulse(Val(currentPlan), nextPlan, t.pulse)])

\* _playProgressionBeat once both plans are computed.
PlayPlannedBeat(t, currentPlan, nextPlan) ==
  IF ~IsSome(currentPlan) THEN StopProgressionPlayback(t)
  ELSE StartProgressionPulseLoop(
         [PlayBeatSounds(t, Val(currentPlan)) EXCEPT !.dispatched = Append(t.dispatched, BeatDispatch(t, Val(currentPlan))),
                   !.pulse = BeatPulse(Val(currentPlan), nextPlan, t.pulse),
                   !.beatIndex = t.beatIndex + 1])

\* _playProgressionBeat
PlayProgressionBeat(t) ==
  With(GetActiveProgressionRootEntries, LAMBDA rootEntries :
    IF Len(rootEntries) = 0 THEN StopProgressionPlayback(t)
    ELSE PlayPlannedBeat(t, GetProgressionBeatPlan(t.beatIndex, rootEntries),
                         GetProgressionBeatPlan(t.beatIndex + 1, rootEntries)))

\* Mutant: start arms the clock but leaves beat 0 to the first tick.
StartProgressionPlaybackWithoutFirstBeat(t) ==
  IF t.playing THEN <<t, TRUE>>
  ELSE IF ~HasProgressionPath THEN <<t, FALSE>>
  ELSE << NotifyProgressionPlaybackStateChange(
            RestartProgressionBeatTimer([t EXCEPT !.playing = TRUE, !.beatIndex = 0])), TRUE >>

\* startProgressionPlayback: <<state, returned value>>
StartProgressionPlayback(t) ==
  IF t.playing THEN <<t, TRUE>>
  ELSE IF ~HasProgressionPath THEN <<t, FALSE>>
  ELSE << NotifyProgressionPlaybackStateChange(
            RestartProgressionBeatTimer(
              PlayProgressionBeat([t EXCEPT !.playing = TRUE, !.beatIndex = 0]))), TRUE >>

(***************************************************************************)
(* Inputs the actions draw from.                                           *)
(***************************************************************************)
\* setProgressionBpm arguments, as the strings parseInt sees.
BpmInputs ==
  { <<"5","9">>, <<"2","0","1">>, <<"1","2","0">>, <<"0">>, <<"a","b","c">>,
    <<"-","7","5">>, <<"1","2","0",".","7">> }

ModeInputs == {"root", "root5th", "eshape513", "cshape1351", "strum135", "bogus"}

\* applyChordProgression arguments: None for null (or an object without degrees),
\* Some(tokens) for { degrees: tokens }.
ProgressionInputs ==
  { None,
    Some(<<>>),
    Some(<< Str(<<"x">>), NotAString, Str(<<"b">>), Str(<<>>) >>),
    Some(<< Str(<<"I">>), Str(<<"I","V">>), Str(<<"V">>), Str(<<"I">>) >>),
    Some(<< Str(<<"v","i">>), Str(<<"z","z">>), Str(<<"b","V","I","I">>) >>) }

(***************************************************************************)
(* Initial state: the constructor (src/unnamed/part_001:7-66).             *)
(***************************************************************************)
NoOp ==
  [name |-> "init", arg |-> <<>>, notified |-> 0, ret |-> "none", dispatched |-> <<>>,
   wasPlaying |-> FALSE, prevBeatIndex |-> 0, afterActiveStop |-> FALSE]

Constructed ==
  /\ bricks = <<>>
  /\ isLeftHanded = FALSE
  /\ isVerticallyMirrored = FALSE
  /\ activeProgressionDegrees = None
  /\ progressionPlaybackMode = "root"
  /\ isProgressionPlaying = FALSE
  /\ progressionBeatTimer = 0
  /\ progressionAnimationFrame = 0
  /\ progressionBeatIndex = 0
  /\ progressionBpm = DefaultBpm
  /\ pulse = ClearedPulse
  /\ activeRiffBeats = None
  /\ activeStrumBeats = None
  /\ activeStrumTimeline = None
  /\ hasDrumEngine = FALSE
  /\ intervals = {}
  /\ frames = {}
  /\ beatLog = <<>>
  /\ dragItem = 0
  /\ isCreating = FALSE
  /\ offsetCw = [x |-> 0, y |-> 0]
  /\ dragStartOrigin = None
  /\ dragConstraintVector = [x |-> 2, y |-> -2]
  /\ pendingDragCopy = None
  /\ timeouts = {}
  /\ isMousePanning = FALSE
  /\ touchGesture = FALSE
  /\ buttonsHeld = {}
  /\ touchCount = 0
  /\ dragOp = [name |-> "init", projected |-> FALSE]
  /\ musicalKey = <<"C">>
  /\ audioCtx = FALSE
  /\ audioCtxUnavailable = FALSE
  /\ drumEngine = NewDrumEngine
  /\ audioOp = NoAudioOp

\* The page in a browser that has the Web Audio API.
Init == Constructed /\ hasAudioBackend = TRUE /\ lastOp = NoOp

\* The transport fields after a handler ran, with what the handler did.
Commit(t, name, arg, ret) ==
  /\ isProgressionPlaying' = t.playing
  /\ progressionBeatTimer' = t.timer
  /\ progressionAnimationFrame' = t.frame
  /\ progressionBeatIndex' = t.beatIndex
  /\ progressionBpm' = t.bpm
  /\ pulse' = t.pulse
  /\ intervals' = t.intervals
  /\ frames' = t.frames
  /\ lastOp' = [name |-> name, arg |-> arg, notified |-> t.notified, ret |-> ret,
                dispatched |-> t.dispatched, wasPlaying |-> isProgressionPlaying,
                prevBeatIndex |-> progressionBeatIndex,
                afterActiveStop |-> lastOp.name = "stop" /\ lastOp.notified = 1]
  /\ beatLog' = IF ~t.playing THEN <<>>
                ELSE (IF ~isProgressionPlaying THEN <<>> ELSE beatLog)
                     \o [i \in 1..Len(t.dispatched) |-> t.dispatched[i].beat]
  /\ audioCtx' = t.audio.ctx
  /\ audioCtxUnavailable' = t.audio.unavailable
  /\ drumEngine' = t.drum
  /\ audioOp' = [tone |-> t.heard, drum |-> t.drumHeard]
  /\ UNCHANGED << hasAudioBackend, musicalKey >>

(***************************************************************************)
(* Actions: the public transport API, the beat clock and the animation     *)
(* frame callback.                                                         *)
(***************************************************************************)
StartPlayback ==
  /\ With(StartProgressionPlayback(Transport), LAMBDA r :
          Commit(r[1], "start", <<>>, IF r[2] THEN "true" ELSE "false"))
  /\ UNCHANGED << activeProgressionDegrees, progressionPlaybackMode, settingVars, dragVars >>

StopPlayback ==
  /\ Commit(StopProgressionPlayback(Transport), "stop", <<>>, "none")
  /\ UNCHANGED << activeProgressionDegrees, progressionPlaybackMode, settingVars, dragVars >>

\* Mutant: only the lower limit is applied.
ClampBpmLowOnly(bpm) ==
  With(ParseInt(bpm), LAMBDA parsed :
    IF ~IsSome(parsed) \/ Val(parsed) = 0 \/ Val(parsed) < MinBpm THEN MinBpm ELSE Val(parsed))

\* The BPM setProgressionBpm stores for an argument.
ClampBpm(bpm) ==
  With(ParseInt(bpm), LAMBDA parsed :
  With(IF ~IsSome(parsed) \/ Val(parsed) = 0 \/ Val(parsed) < MinBpm
       THEN MinBpm ELSE Val(parsed), LAMBDA next :
    IF next > MaxBpm THEN MaxBpm ELSE next))

\* setProgressionBpm
SetProgressionBpm(bpm) ==
  /\ With([Transport EXCEPT !.bpm = ClampBpm(bpm)], LAMBDA t1 :
          Commit(IF t1.playing THEN RestartProgressionBeatTimer(t1) ELSE t1, "setBpm", bpm, "none"))
  /\ UNCHANGED << activeProgressionDegrees, progressionPlaybackMode, settingVars, dragVars >>

NormalizeMode(mode) ==
  IF mode \in {"root5th", "arpeggio135", "eshape513", "cshape1351"} THEN mode
  ELSE IF mode = "strum135" THEN "cshape1351"
  ELSE "root"

\* Mutant: the mode is switched under a running transport.
SetProgressionPlaybackModeKeepsPlaying(mode) ==
  /\ progressionPlaybackMode' = NormalizeMode(mode)
  /\ Commit(Transport, "setMode", <<>>, "none")
  /\ UNCHANGED << activeProgressionDegrees, settingVars, dragVars >>

\* setProgressionPlaybackMode
SetProgressionPlaybackMode(mode) ==
  /\ progressionPlaybackMode' = NormalizeMode(mode)
  /\ IF progressionPlaybackMode = NormalizeMode(mode) THEN Commit(Transport, "setMode", <<>>, "none")
     ELSE IF isProgressionPlaying
          THEN Commit(StopProgressionPlayback(Transport), "setMode", <<>>, "none")
          ELSE Commit(Transport, "setMode", <<>>, "none")
  /\ UNCHANGED << activeProgressionDegrees, settingVars, dragVars >>

\* Mutant: a progression is applied under a running transport without the path check.
ApplyChordProgressionKeepsPlaying(progression) ==
  /\ activeProgressionDegrees' =
       IF IsSome(progression) /\ Len(Val(progression)) > 0 THEN progression ELSE None
  /\ bricks' = IF Len(bricks) = 0 THEN << GetDefaultBrickTopLeft >> ELSE bricks
  /\ Commit(Transport, "apply", <<>>, "none")
  /\ UNCHANGED << progressionPlaybackMode, isLeftHanded, isVerticallyMirrored,
                  activeRiffBeats, activeStrumBeats, activeStrumTimeline, hasDrumEngine,
                  dragVars >>

\* applyChordProgression
ApplyChordProgression(progression) ==
  /\ activeProgressionDegrees' =
       IF IsSome(progression) /\ Len(Val(progression)) > 0 THEN progression ELSE None
  /\ IF isProgressionPlaying /\ ~HasProgressionPathFor(activeProgressionDegrees')
     THEN /\ Commit(StopProgressionPlayback(Transport), "apply", <<>>, "none")
          /\ bricks' = bricks
     ELSE /\ bricks' = IF Len(bricks) = 0 THEN << GetDefaultBrickTopLeft >> ELSE bricks
          /\ Commit(IF ~isProgressionPlaying
                    THEN [Transport EXCEPT
                            !.pulse = [ClearProgressionPulse(pulse) EXCEPT
                                         !.guidePairFrom = None, !.guidePairTo = None]]
                    ELSE Transport, "apply", <<>>, "none")
  /\ UNCHANGED << progressionPlaybackMode, isLeftHanded, isVerticallyMirrored,
                  activeRiffBeats, activeStrumBeats, activeStrumTimeline, hasDrumEngine,
                  dragVars >>

\* setDrumEngine
SetDrumEngine(present) ==
  /\ hasDrumEngine' = present
  /\ Commit(Transport, "setDrumEngine", <<>>, "none")
  /\ UNCHANGED << activeProgressionDegrees, progressionPlaybackMode, bricks, isLeftHanded,
                  isVerticallyMirrored, activeRiffBeats, activeStrumBeats,
                  activeStrumTimeline, dragVars >>

\* setRiffPattern: None for null (or a non-object), Some(notes) for { notes: notes };
\* an object without a notes or tab string is Some(Str(<<>>)).
SetRiffPattern(riff) ==
  /\ activeRiffBeats' = IF IsSome(riff) THEN Some(ParseRiffNotes(Val(riff))) ELSE None
  /\ IF ~IsSome(riff) \/ ~isProgressionPlaying
     THEN Commit([Transport EXCEPT !.pulse = ClearProgressionPulse(pulse)],
                 "setRiff", <<>>, "none")
     ELSE Commit(Transport, "setRiff", <<>>, "none")
  /\ UNCHANGED << activeProgressionDegrees, progressionPlaybackMode, bricks, isLeftHanded,
                  isVerticallyMirrored, activeStrumBeats, activeStrumTimeline, hasDrumEngine,
                  dragVars >>

\* setStrumPattern: None for null (or a non-object), Some(beats) for { beats: beats }
\* with beats an array.
SetStrumPattern(pattern) ==
  /\ activeStrumBeats' =
       IF IsSome(pattern) THEN Some(ParseStrumPatternBeats(Val(pattern))) ELSE None
  /\ activeStrumTimeline' =
       IF IsSome(pattern) THEN Some(BuildStrumTimeline(ParseStrumPatternBeats(Val(pattern))))
       ELSE None
  /\ Commit(Transport, "setStrum", <<>>, "none")
  /\ UNCHANGED << activeProgressionDegrees, progressionPlaybackMode, bricks, isLeftHanded,
                  isVerticallyMirrored, activeRiffBeats, hasDrumEngine, dragVars >>

\* The beat clock fires: the setInterval callback of _restartProgressionBeatTimer.
ClockTickWithin(n) ==
  /\ progressionBeatIndex < n
  /\ \E iv \in intervals : Commit(PlayProgressionBeat(Transport), "tick", <<>>, "none")
  /\ UNCHANGED << activeProgressionDegrees, progressionPlaybackMode, settingVars, dragVars >>

ClockTick == ClockTickWithin(MaxBeat)

\* The tick closure of _startProgressionPulseLoop, run for the pending callback id.
PulseTick(t, id, progress) ==
  With([t EXCEPT !.frames = t.frames \ {id}], LAMBDA t1 :
    IF ~t1.playing \/ Len(t1.pulse.fromCells) = 0 \/ Len(t1.pulse.toCells) = 0
    THEN [t1 EXCEPT !.frame = 0]
    ELSE With(FreshId(t1.frames), LAMBDA next :
           [t1 EXCEPT !.pulse.progress = progress,
                      !.frames = t1.frames \cup {next}, !.frame = next]))

\* A display frame: the host runs a pending requestAnimationFrame callback.
AnimationFrame ==
  /\ \E id \in frames, progress \in 0..ProgressSteps :
       Commit(PulseTick(Transport, id, progress), "frame", <<>>, "none")
  /\ UNCHANGED << activeProgressionDegrees, progressionPlaybackMode, settingVars, dragVars >>

Next ==
  \/ StartPlayback
  \/ StopPlayback
  \/ \E bpm \in BpmInputs : SetProgressionBpm(bpm)
  \/ \E mode \in ModeInputs : SetProgressionPlaybackMode(mode)
  \/ \E progression \in ProgressionInputs : ApplyChordProgression(progression)
  \/ \E present \in BOOLEAN : SetDrumEngine(present)
  \/ ClockTick
  \/ AnimationFrame

Spec == Init /\ [][Next]_vars

(***************************************************************************)
(* Lattice and drag geometry.  A point is [x, y] in 1/U cell-widths.       *)
(***************************************************************************)
Pt(x, y) == [x |-> x, y |-> y]

\* Math.round(num / den) for den > 0: floor(num / den + 1/2).
RoundDiv(num, den) == (2 * num + den) \div (2 * den)

\* Mutant: b is computed with the sign of the y term reversed.
GlobalToLatticeWithFlippedRow(o, xCw, yCw) ==
  [aNum |-> (xCw - o.xCw) - 5 * (yCw - o.yCw), bNum |-> (xCw - o.xCw) - (yCw - o.yCw)]

\* _globalToLattice about the origin o: a = aNum / (12 U), b = bNum / (6 U).
GlobalToLattice(o, xCw, yCw) ==
  [aNum |-> (xCw - o.xCw) - 5 * (yCw - o.yCw), bNum |-> (xCw - o.xCw) + (yCw - o.yCw)]

\* _latticeToGlobal about the origin o (a, b integers)
LatticeToGlobal(o, a, b) == Pt(o.xCw + (2 * a + 5 * b) * U, o.yCw + (b - 2 * a) * U)

\* inBounds of _snapToLattice: the top-left of a brick whose origin cell is at originPos.
InBounds(originPos, originOffset) ==
  /\ originPos.x - originOffset.col * U >= 0
  /\ originPos.x - originOffset.col * U <= (widthCw - brickWidthCw) * U
  /\ originPos.y - originOffset.row * U >= 0
  /\ originPos.y - originOffset.row * U <= (heightCw - brickHeightCw) * U

PtSqDist(a, b) == (a.x - b.x) * (a.x - b.x) + (a.y - b.y) * (a.y - b.y)

\* Mutant: without a hit the candidate itself is returned, unrounded.
SnapFallbackToCandidate(o, origin, i0, j0) == origin

\* The last resort of _snapToLattice: best is still the rounded point.
SnapFallback(o, origin, i0, j0) == LatticeToGlobal(o, i0, j0)

\* The ring search of _snapToLattice: rings r = 0..19 about (i0, j0); the first
\* ring with an in-bounds point yields its nearest one (the first in scan order
\* among equals); without any, the rounded point itself.
RECURSIVE SnapRing(_, _, _, _, _, _)
SnapRing(o, origin, originOffset, i0, j0, r) ==
  IF r >= 20 THEN SnapFallback(o, origin, i0, j0)
  ELSE With({dd \in (-r..r) \X (-r..r) :
               /\ Abs(dd[1]) = r \/ Abs(dd[2]) = r
               /\ InBounds(LatticeToGlobal(o, i0 + dd[1], j0 + dd[2]), originOffset)},
            LAMBDA hits :
    IF hits = {} THEN SnapRing(o, origin, originOffset, i0, j0, r + 1)
    ELSE With(CHOOSE h \in hits : \A g \in hits :
                \/ PtSqDist(LatticeToGlobal(o, i0 + h[1], j0 + h[2]), origin)
                     < PtSqDist(LatticeToGlobal(o, i0 + g[1], j0 + g[2]), origin)
                \/ /\ PtSqDist(LatticeToGlobal(o, i0 + h[1], j0 + h[2]), origin)
                        = PtSqDist(LatticeToGlobal(o, i0 + g[1], j0 + g[2]), origin)
                   /\ RowMajorBefore(h, g),
              LAMBDA best : LatticeToGlobal(o, i0 + best[1], j0 + best[2])))

\* _snapToLattice about the origin o
SnapToLattice(o, origin, originOffset) ==
  With(GlobalToLattice(o, origin.x, origin.y), LAMBDA lab :
  With(RoundDiv(lab.aNum, 12 * U), LAMBDA i0 :
  With(RoundDiv(lab.bNum, 6 * U), LAMBDA j0 :
    IF InBounds(LatticeToGlobal(o, i0, j0), originOffset)
    THEN LatticeToGlobal(o, i0, j0)
    ELSE SnapRing(o, origin, originOffset, i0, j0, 0))))

\* _pxToCw with the view transform at identity: a client position is a display
\* position in 1/U cell-widths.
PxToCw(client) == Pt(DisplayXToWorldX(client.x), DisplayYToWorldY(client.y))

\* _hitTest: the topmost brick under the point, 0-based, -1 for none.
HitTest(items, xCw, yCw) ==
  With({i \in 1..Len(items) :
          /\ xCw >= items[i].xCw /\ xCw < items[i].xCw + brickWidthCw * U
          /\ yCw >= items[i].yCw /\ yCw < items[i].yCw + brickHeightCw * U},
       LAMBDA hits :
    IF hits = {} THEN -1 ELSE (CHOOSE i \in hits : \A j \in hits : j <= i) - 1)

\* The dots of a brick within the hit radius 0.4 of the point (0-based <<r, c>>).
DotsHit(item, xCw, yCw) ==
  {rc \in (0..(Len(BrickCellData) - 1)) \X (0..(Len(BrickCellData[1]) - 1)) :
     /\ Abs(xCw - (item.xCw + rc[2] * U)) <= U
     /\ Abs(yCw - (item.yCw + rc[1] * U)) <= U
     /\ 25 * ((xCw - (item.xCw + rc[2] * U)) * (xCw - (item.xCw + rc[2] * U))
              + (yCw - (item.yCw + rc[1] * U)) * (yCw - (item.yCw + rc[1] * U)))
          <= 4 * U * U}

\* _hitDot: None, or the dot of the topmost brick that has one under the point.
HitDot(items, xCw, yCw) ==
  With({i \in 1..Len(items) : DotsHit(items[i], xCw, yCw) # {}}, LAMBDA hits :
    IF hits = {} THEN None
    ELSE With(CHOOSE i \in hits : \A j \in hits : j <= i, LAMBDA i :
         With(CHOOSE h \in DotsHit(items[i], xCw, yCw) :
                \A g \in DotsHit(items[i], xCw, yCw) : RowMajorBefore(h, g), LAMBDA rc :
           Some([xCw |-> items[i].xCw + rc[2] * U, yCw |-> items[i].yCw + rc[1] * U,
                 brickIndex |-> i - 1]))))

\* Mutant: the projected point is rounded to whole cells, coordinate by coordinate.
ProjectAndRoundToCells(desired, s, v) ==
  With(v.x * v.x + v.y * v.y, LAMBDA vLenSq :
  With((desired.x - s.x) * v.x + (desired.y - s.y) * v.y, LAMBDA dot :
    Pt(s.x + U * RoundDiv(dot * v.x, vLenSq * U), s.y + U * RoundDiv(dot * v.y, vLenSq * U))))

\* Mutant: the position always snaps to the nearest lattice point of the line.
ProjectAlwaysSnapping(desired, s, v) ==
  With(v.x * v.x + v.y * v.y, LAMBDA vLenSq :
  With((desired.x - s.x) * v.x + (desired.y - s.y) * v.y, LAMBDA dot :
  With(RoundDiv(dot, vLenSq * U), LAMBDA k : Pt(s.x + k * v.x * U, s.y + k * v.y * U))))

\* The projection of _doMove: t = dot / (vLenSq U) with dot in 1/U cell-widths;
\* the point start + t v, or start + round(t) v when |t - round(t)| |v| <= 0.5.
ProjectOntoLine(desired, s, v) ==
  With(v.x * v.x + v.y * v.y, LAMBDA vLenSq :
  With((desired.x - s.x) * v.x + (desired.y - s.y) * v.y, LAMBDA dot :
  With(RoundDiv(dot, vLenSq * U), LAMBDA k :
    IF 4 * (dot - k * vLenSq * U) * (dot - k * vLenSq * U) <= U * U * vLenSq
    THEN Pt(s.x + k * v.x * U, s.y + k * v.y * U)
    ELSE Pt(s.x + (dot * v.x) \div vLenSq, s.y + (dot * v.y) \div vLenSq))))

(***************************************************************************)
(* The drag session.  The handlers take and return the input state d, a    *)
(* record of the fields the pointer handlers and the hold timer change.    *)
(***************************************************************************)
DragState ==
  [bricks |-> bricks, dragItem |-> dragItem, isCreating |-> isCreating,
   offsetCw |-> offsetCw, dragStartOrigin |-> dragStartOrigin,
   pending |-> pendingDragCopy, timeouts |-> timeouts, panning |-> isMousePanning,
   gesture |-> touchGesture, projected |-> FALSE,
   audio |-> [ctx |-> audioCtx, unavailable |-> audioCtxUnavailable], heard |-> NoAudio]

\* The origin-cell offset every placement carries (all bricks are 5x3 Bricks).
originOffset == GetBrickOriginOffset(BrickCellData)

\* The origin-cell position of a placement.
OriginOf(item) == Pt(item.xCw + originOffset.col * U, item.yCw + originOffset.row * U)

\* The placement whose origin cell is at the point.
PlacedAt(origin) == Cell(origin.x - originOffset.col * U, origin.y - originOffset.row * U)

\* _doMove
DoMove(d, client) ==
  IF d.dragItem = 0 \/ ~IsSome(d.dragStartOrigin) THEN d
  ELSE IF dragConstraintVector.x * dragConstraintVector.x
          + dragConstraintVector.y * dragConstraintVector.y = 0 THEN d
  ELSE [d EXCEPT !.bricks[d.dragItem] =
                   PlacedAt(ProjectOntoLine(
                     Pt(PxToCw(client).x - d.offsetCw.x, PxToCw(client).y - d.offsetCw.y),
                     Val(d.dragStartOrigin), dragConstraintVector)),
                 !.projected = TRUE]

\* cancelPendingDragCopy
CancelPendingDragCopy(d) ==
  IF ~IsSome(d.pending) THEN d
  ELSE [d EXCEPT !.timeouts = d.timeouts \ {Val(d.pending).timerId}, !.pending = None]

\* Mutant: the pressed item itself becomes the drag item.
BeginDragOfItem(d, item, pointerCw, snappedOrigin) ==
  [d EXCEPT !.bricks = [i \in 1..Len(d.bricks) |->
                         IF d.bricks[i] = item THEN PlacedAt(snappedOrigin) ELSE d.bricks[i]],
            !.dragItem = CHOOSE i \in 1..Len(d.bricks) : d.bricks[i] = item,
            !.isCreating = FALSE,
            !.offsetCw = Pt(pointerCw.x - OriginOf(item).x, pointerCw.y - OriginOf(item).y),
            !.dragStartOrigin = Some(snappedOrigin)]

\* The drag item startDragCopyFromIndex creates: a copy of the item, pushed on
\* the bricks and snapped to the lattice, with the session anchored there.
BeginDragCopy(d, item, pointerCw, snappedOrigin) ==
  [d EXCEPT !.bricks = Append(d.bricks, PlacedAt(snappedOrigin)),
            !.dragItem = Len(d.bricks) + 1,
            !.isCreating = TRUE,
            !.offsetCw = Pt(pointerCw.x - OriginOf(item).x, pointerCw.y - OriginOf(item).y),
            !.dragStartOrigin = Some(snappedOrigin)]

\* startDragCopyFromIndex (idx 0-based)
StartDragCopyFromIndex(d, idx, pointerCw, pointerClient) ==
  IF idx < 0 \/ idx >= Len(d.bricks) THEN d
  ELSE DoMove(BeginDragCopy(d, d.bricks[idx + 1], pointerCw,
                            SnapToLattice(OneCellCenterOf(d.bricks),
                                          OriginOf(d.bricks[idx + 1]), originOffset)),
              pointerClient)

\* queueDragCopyHold
QueueDragCopyHold(d, idx, cw, client) ==
  With(CancelPendingDragCopy(d), LAMBDA d1 :
  With(FreshId(d1.timeouts), LAMBDA id :
    [d1 EXCEPT !.pending = Some([idx |-> idx, startCw |-> cw, lastCw |-> cw,
                                 lastClient |-> client, timerId |-> id]),
               !.timeouts = d1.timeouts \cup {id}]))

\* The callback queueDragCopyHold arms, run by the host for the timer id.
HoldTimeout(d, id) ==
  With([d EXCEPT !.timeouts = d.timeouts \ {id}], LAMBDA d1 :
    IF ~IsSome(d1.pending) \/ Val(d1.pending).timerId # id THEN d1
    ELSE StartDragCopyFromIndex([d1 EXCEPT !.pending = None], Val(d1.pending).idx,
                                Val(d1.pending).lastCw, Val(d1.pending).lastClient))

\* finishDrag
FinishDrag(d) ==
  IF d.dragItem = 0 THEN d
  ELSE [d EXCEPT !.bricks[d.dragItem] =
                   PlacedAt(SnapToLattice(OneCellCenterOf(d.bricks),
                                          OriginOf(d.bricks[d.dragItem]), originOffset)),
                 !.dragItem = 0, !.isCreating = FALSE, !.dragStartOrigin = None]

\* toFixed(3): coordinates of a dot are kept in thousandths.
Milli == 1000

\* snap of _dotToDisplayCoord, of v in 1/U cell-widths, in thousandths: a whole number
\* of cells is kept, anything else is rounded to three decimals.
SnapCoord(v) == IF v % U = 0 THEN (v \div U) * Milli ELSE RoundDiv(v * Milli, U)

\* Mutant: the coordinates are read off the display without undoing the flips.
DotToDisplayCoordOfDisplay(dotX, dotY) ==
  [x |-> SnapCoord(WorldXToDisplayX(GetOneCellCenter.xCw) - WorldXToDisplayX(dotX)),
   y |-> SnapCoord(WorldYToDisplayY(dotY) - WorldYToDisplayY(GetOneCellCenter.yCw))]

\* _dotToDisplayCoord: the semitone-lattice coordinates of a dot, in thousandths.
DotToDisplayCoord(dotX, dotY) ==
  LET origin == GetOneCellCenter
      x == WorldXToDisplayX(origin.xCw) - WorldXToDisplayX(dotX)
      y == WorldYToDisplayY(dotY) - WorldYToDisplayY(origin.yCw)
  IN [x |-> SnapCoord(IF isLeftHanded THEN -x ELSE x),
      y |-> SnapCoord(IF isVerticallyMirrored THEN -y ELSE y)]

\* semitoneOffset of _playDotTone, in thousandths of a semitone
DotSemitoneOffset(dotX, dotY) ==
  With(DotToDisplayCoord(dotX, dotY), LAMBDA coord : coord.x + 5 * coord.y)

\* _playDotTone for a dot of the canvas
PlayDotTone(d) ==
  With(PlayVoice([a |-> d.audio, log |-> d.heard], "tone"), LAMBDA s :
    [d EXCEPT !.audio = s.a, !.heard = s.log])

\* The press of start on the canvas at cw: a dot sounds and queues a hold, a
\* brick queues a hold.
PressAt(d, cw, client) ==
  With(HitDot(d.bricks, cw.x, cw.y), LAMBDA dotHit :
    IF IsSome(dotHit)
    THEN QueueDragCopyHold(PlayDotTone(d), Val(dotHit).brickIndex, cw, client)
    ELSE With(HitTest(d.bricks, cw.x, cw.y), LAMBDA idx :
           IF idx < 0 THEN CancelPendingDragCopy(d)
           ELSE QueueDragCopyHold(d, idx, cw, client)))

\* start (mousedown / touchstart on the canvas)
Start(d, e) ==
  IF ~e.touch /\ e.button = 1
  THEN [CancelPendingDragCopy(d) EXCEPT !.panning = TRUE]
  ELSE IF e.touch /\ e.touches >= 2
  THEN [FinishDrag(CancelPendingDragCopy(d)) EXCEPT !.gesture = TRUE]
  ELSE IF ~e.touch /\ e.button # 0 THEN d
  ELSE IF e.touch /\ e.touches # 1 THEN d
  ELSE PressAt(d, PxToCw(e.client), e.client)

\* The hold branch of move: the pending hold follows the pointer and is
\* cancelled by a released button or a drift of more than 0.35 cell-widths.
MoveWhilePending(d, e, holdCw) ==
  IF ~e.touch /\ e.buttons = 0 THEN CancelPendingDragCopy(d)
  ELSE With([d EXCEPT !.pending = Some([Val(d.pending) EXCEPT
                                          !.lastClient = e.client, !.lastCw = holdCw])],
            LAMBDA d1 :
    IF \/ Abs(holdCw.x - Val(d.pending).startCw.x) > U
       \/ Abs(holdCw.y - Val(d.pending).startCw.y) > U
       \/ 400 * PtSqDist(holdCw, Val(d.pending).startCw) > 49 * U * U
    THEN CancelPendingDragCopy(d1) ELSE d1)

\* move after the pan and gesture branches
MoveOnCanvas(d, e) ==
  IF IsSome(d.pending) THEN MoveWhilePending(d, e, PxToCw(e.client))
  ELSE IF d.dragItem = 0 THEN d
  ELSE DoMove(d, e.client)

\* move (mousemove / touchmove on the window)
Move(d, e) ==
  IF ~e.touch /\ d.panning THEN d
  ELSE IF e.touch /\ d.gesture /\ e.touches >= 2 THEN d
  ELSE MoveOnCanvas(IF e.touch /\ d.gesture THEN [d EXCEPT !.gesture = FALSE] ELSE d, e)

\* end (mouseup / touchend / touchcancel on the window); e.touches are the touches left.
End(d, e) ==
  IF ~e.touch /\ d.panning THEN [d EXCEPT !.panning = FALSE]
  ELSE IF e.touch /\ d.gesture THEN [d EXCEPT !.gesture = (e.touches >= 2)]
  ELSE IF IsSome(d.pending) THEN CancelPendingDragCopy(d)
  ELSE FinishDrag(d)

(***************************************************************************)
(* Pointer inputs and the drag specification.                              *)
(***************************************************************************)
\* A display position on the quarter-cell grid.
Quarter(xq, yq) == Pt(xq * (U \div 4), yq * (U \div 4))

\* Pointer positions: the "1" dot of the default brick (14, 7), a point a quarter
\* cell beside it, lattice points on either constraint line, and a point off both lines.
PointerPositions ==
  { Quarter(56, 28), Quarter(57, 28), Quarter(64, 20), Quarter(76, 32), Quarter(68, 26) }

\* The position of an event whose handler does not read it.
Elsewhere == Quarter(0, 0)

\* addBrick arguments (top-left, in cell-widths): the brick App places, and one off the lattice.
BrickPositions == { <<10, 6>>, <<3, 2>> }

Event(touch, button, buttons, touches, client) ==
  [touch |-> touch, button |-> button, buttons |-> buttons, touches |-> touches,
   client |-> client]

\* The mouse buttons: left, middle, right.
Buttons == 0..2

\* e.buttons of a mouse event with these buttons held: 0 exactly when none is.
ButtonsMask(held) == IF held = {} THEN 0 ELSE 1

\* Mouse and touch events, with any button, buttons mask and touch count.
PointerEvents ==
  { Event(FALSE, b, m, 0, c) : b \in Buttons, m \in 0..1, c \in PointerPositions \cup {Elsewhere} }
  \cup { Event(TRUE, 0, 0, n, c) : n \in 0..MaxTouches, c \in PointerPositions \cup {Elsewhere} }

\* The events the host can deliver next.
\* mousedown of a button that was up (the left button anywhere on the canvas);
\* touchstart of one more touch (the first anywhere on the canvas).
IsStartEvent(e) ==
  IF e.touch
  THEN /\ e.touches = touchCount + 1
       /\ (e.client = Elsewhere) = (touchCount > 0)
  ELSE /\ e.button \notin buttonsHeld /\ e.buttons = 1
       /\ (e.client = Elsewhere) = (e.button # 0)

StartEvents == { e \in PointerEvents : IsStartEvent(e) }

\* mousemove with the buttons that are held; touchmove of the touches on the screen.
IsMoveEvent(e) ==
  /\ e.client # Elsewhere
  /\ IF e.touch THEN touchCount > 0 /\ e.touches = touchCount
     ELSE e.button = 0 /\ e.buttons = ButtonsMask(buttonsHeld)

MoveEvents == { e \in PointerEvents : IsMoveEvent(e) }

\* mouseup of a button that was held; touchend or touchcancel of one touch.
IsEndEvent(e) ==
  /\ e.client = Elsewhere
  /\ IF e.touch THEN touchCount > 0 /\ e.touches = touchCount - 1
     ELSE e.button \in buttonsHeld /\ e.buttons = ButtonsMask(buttonsHeld \ {e.button})

EndEvents == { e \in PointerEvents : IsEndEvent(e) }

\* The fields no input handler writes.
inputFrame ==
  << transportVars, isLeftHanded, isVerticallyMirrored, activeRiffBeats, activeStrumBeats,
     activeStrumTimeline, hasDrumEngine, dragConstraintVector, hasAudioBackend, musicalKey,
     drumEngine >>

\* The input fields after a handler ran, with what the handler did.
CommitDrag(d, name) ==
  /\ bricks' = d.bricks
  /\ dragItem' = d.dragItem
  /\ isCreating' = d.isCreating
  /\ offsetCw' = d.offsetCw
  /\ dragStartOrigin' = d.dragStartOrigin
  /\ pendingDragCopy' = d.pending
  /\ timeouts' = d.timeouts
  /\ isMousePanning' = d.panning
  /\ touchGesture' = d.gesture
  /\ dragOp' = [name |-> name, projected |-> d.projected]
  /\ audioCtx' = d.audio.ctx
  /\ audioCtxUnavailable' = d.audio.unavailable
  /\ audioOp' = [tone |-> d.heard, drum |-> NoAudio]

\* addBrick (a new Brick at the position) on a canvas that holds at most n placements
AddBrickWithin(n, xCw, yCw) ==
  /\ Len(bricks) < n
  /\ CommitDrag([DragState EXCEPT !.bricks = Append(bricks, Cell(xCw * U, yCw * U))],
                "addBrick")
  /\ UNCHANGED << inputFrame, pointerVars >>

AddBrick(xCw, yCw) == AddBrickWithin(MaxBricks, xCw, yCw)

\* setDragConstraintSlope
SetDragConstraintSlope(useFiveByOneSlope) ==
  /\ dragConstraintVector' = IF useFiveByOneSlope THEN Pt(5, 1) ELSE Pt(2, -2)
  /\ dragOp' = [name |-> "slope", projected |-> FALSE]
  /\ audioOp' = NoAudioOp
  /\ UNCHANGED << transportVars, settingVars, dragItem, isCreating, offsetCw,
                  dragStartOrigin, pendingDragCopy, timeouts, isMousePanning, touchGesture,
                  pointerVars, hasAudioBackend, musicalKey, audioCtx, audioCtxUnavailable, drumEngine >>

\* mousedown / touchstart on the canvas
PointerStart(e) ==
  /\ IsStartEvent(e)
  /\ CommitDrag(Start(DragState, e), "start")
  /\ buttonsHeld' = IF e.touch THEN buttonsHeld ELSE buttonsHeld \cup {e.button}
  /\ touchCount' = IF e.touch THEN e.touches ELSE touchCount
  /\ UNCHANGED inputFrame

\* mousemove / touchmove
PointerMove(e) ==
  /\ IsMoveEvent(e)
  /\ CommitDrag(Move(DragState, e), "move")
  /\ UNCHANGED << inputFrame, pointerVars >>

\* mouseup / touchend / touchcancel
PointerEnd(e) ==
  /\ IsEndEvent(e)
  /\ CommitDrag(End(DragState, e), "end")
  /\ buttonsHeld' = IF e.touch THEN buttonsHeld ELSE buttonsHeld \ {e.button}
  /\ touchCount' = IF e.touch THEN e.touches ELSE touchCount
  /\ UNCHANGED inputFrame

\* The hold delay (1000 ms) of a pending timer elapses, on a canvas that holds
\* at most n placements.
HoldTimerFiresWithin(n) ==
  /\ Len(bricks) < n
  /\ \E id \in timeouts : CommitDrag(HoldTimeout(DragState, id), "timer")
  /\ UNCHANGED << inputFrame, pointerVars >>

HoldTimerFires == HoldTimerFiresWithin(MaxBricks)

DragNext ==
  \/ \E pos \in BrickPositions : AddBrick(pos[1], pos[2])
  \/ \E useFiveByOneSlope \in BOOLEAN : SetDragConstraintSlope(useFiveByOneSlope)
  \/ \E e \in PointerEvents : PointerStart(e)
  \/ \E e \in PointerEvents : PointerMove(e)
  \/ \E e \in PointerEvents : PointerEnd(e)
  \/ HoldTimerFires

DragSpec == Init /\ [][DragNext]_vars

(***************************************************************************)
(* The sessions of the left mouse button alone, on a canvas of up to       *)
(* MaxPlacements placements.                                               *)
(***************************************************************************)
LeftMouseEvents == { e \in PointerEvents : ~e.touch /\ e.button = 0 }

AddPlacement(xCw, yCw) == AddBrickWithin(MaxPlacements, xCw, yCw)

HoldTimerElapses == HoldTimerFiresWithin(MaxPlacements)

HoldNext ==
  \/ \E pos \in BrickPositions : AddPlacement(pos[1], pos[2])
  \/ \E e \in LeftMouseEvents : PointerStart(e)
  \/ \E e \in LeftMouseEvents : PointerMove(e)
  \/ \E e \in LeftMouseEvents : PointerEnd(e)
  \/ HoldTimerElapses

HoldSpec == Init /\ [][HoldNext]_vars

(***************************************************************************)
(* Calls of _degreeToSemitoneOffset: the argument is drawn at the start,   *)
(* the call records its result.                                            *)
(***************************************************************************)
DegreeAlphabet == {"#", "b", "I", "V", "i", "v", "X", " "}

\* The strings of at most n characters.
RECURSIVE StringsUpTo(_, _)
StringsUpTo(alphabet, n) ==
  IF n = 0 THEN { <<>> }
  ELSE With(StringsUpTo(alphabet, n - 1), LAMBDA shorter :
         shorter \cup { Append(t, c) : t \in { t \in shorter : Len(t) = n - 1 }, c \in alphabet })

DegreeTokens == {NotAString} \cup { Str(chars) : chars \in StringsUpTo(DegreeAlphabet, MaxTokenLen) }

DegreeInit ==
  Constructed /\ hasAudioBackend = TRUE /\ \E token \in DegreeTokens : lastOp = [NoOp EXCEPT !.arg = token]

\* this._degreeToSemitoneOffset(degreeToken) for the argument drawn
CallDegreeToSemitoneOffset ==
  /\ lastOp.name = "init"
  /\ lastOp' = [lastOp EXCEPT !.name = "degreeToSemitoneOffset",
                              !.ret = DegreeToSemitoneOffset(lastOp.arg)]
  /\ UNCHANGED << activeProgressionDegrees, progressionPlaybackMode, isProgressionPlaying,
                  progressionBeatTimer, progressionAnimationFrame, progressionBeatIndex,
                  progressionBpm, pulse, intervals, frames, beatLog, settingVars, dragVars,
                  audioVars >>

\* this._getThirdSemitoneOffsetForDegree(degreeToken) for the argument drawn
CallGetThirdSemitoneOffsetForDegree ==
  /\ lastOp.name = "init"
  /\ lastOp' = [lastOp EXCEPT !.name = "getThirdSemitoneOffsetForDegree",
                              !.ret = GetThirdSemitoneOffsetForDegree(lastOp.arg)]
  /\ UNCHANGED << activeProgressionDegrees, progressionPlaybackMode, isProgressionPlaying,
                  progressionBeatTimer, progressionAnimationFrame, progressionBeatIndex,
                  progressionBpm, pulse, intervals, frames, beatLog, settingVars, dragVars,
                  audioVars >>

DegreeNext == CallDegreeToSemitoneOffset \/ CallGetThirdSemitoneOffsetForDegree

DegreeSpec == DegreeInit /\ [][DegreeNext]_vars

(***************************************************************************)
(* Beat plans: the progression, mode, riff and strum pattern are set       *)
(* through the public API and _getProgressionBeatPlan is called for a     *)
(* beat; the call records its result.                                      *)
(***************************************************************************)
\* setRiffPattern arguments: null; an object without notes; "(0,0-2-)";
\* "(0,0002),(-1,0200)"; "( 1 , 3,x,-1)".
RiffInputs ==
  { None,
    Some(Str(<<>>)),
    Some(Str(<< "(", "0", ",", "0", "-", "2", "-", ")" >>)),
    Some(Str(<< "(", "0", ",", "0", "0", "0", "2", ")", ",",
                "(", "-", "1", ",", "0", "2", "0", "0", ")" >>)),
    Some(Str(<< "(", " ", "1", " ", ",", " ", "3", ",", "x", ",", "-", "1", ")" >>)) }

\* setStrumPattern arguments: null; beats ["d","-","du","u"]; ["D u","x","s","ud"];
\* a twelve-stroke first beat; a single beat.
StrumPatternInputs ==
  { None,
    Some(<< Str(<<"d">>), Str(<<"-">>), Str(<<"d","u">>), Str(<<"u">>) >>),
    Some(<< Str(<<"D"," ","u">>), Str(<<"x">>), Str(<<"s">>), Str(<<"u","d">>) >>),
    Some(<< Str(<<"d","d","d","d","d","d","d","d","d","d","d","d">>), Str(<<"-">>),
            Str(<<"d">>), Str(<<"-">>) >>),
    Some(<< Str(<<"d">>) >>) }

\* this._getProgressionBeatPlan(beatIndex, this._getActiveProgressionRootEntries())
CallGetProgressionBeatPlan(beatIndex) ==
  /\ lastOp' = [NoOp EXCEPT !.name = "getProgressionBeatPlan", !.arg = beatIndex,
                            !.ret = GetProgressionBeatPlan(beatIndex,
                                                           GetActiveProgressionRootEntries)]
  /\ UNCHANGED << activeProgressionDegrees, progressionPlaybackMode, isProgressionPlaying,
                  progressionBeatTimer, progressionAnimationFrame, progressionBeatIndex,
                  progressionBpm, pulse, intervals, frames, beatLog, settingVars, dragVars,
                  audioVars >>

\* setProgressionPlaybackMode arguments: every mode name, an alias and an unknown name.
PlanModeInputs == PlaybackModes \cup ModeInputs

PlanNext ==
  \/ \E progression \in ProgressionInputs : ApplyChordProgression(progression)
  \/ \E mode \in PlanModeInputs : SetProgressionPlaybackMode(mode)
  \/ \E riff \in RiffInputs : SetRiffPattern(riff)
  \/ \E pattern \in StrumPatternInputs : SetStrumPattern(pattern)
  \/ \E beatIndex \in 0..MaxPlanBeat : CallGetProgressionBeatPlan(beatIndex)

PlanSpec == Init /\ [][PlanNext]_vars

(***************************************************************************)
(* The projection of _doMove: the anchor, the constraint vector and the    *)
(* desired position (pointer minus grab offset) are drawn at the start;    *)
(* the call records the position the dragged placement's origin is given.  *)
(***************************************************************************)
\* Anchors: the default lattice origin and a lattice point on a half cell.
DragAnchors == { Pt(14 * U, 7 * U), Pt(9 * U + U \div 2, 6 * U + U \div 2) }

\* The two constraint vectors of setDragConstraintSlope.
ConstraintVectors == { Pt(2, -2), Pt(5, 1) }

\* Desired positions on the quarter-cell grid around an anchor.
DesiredAround(s) ==
  { Pt(s.x + xq * (U \div 4), s.y + yq * (U \div 4)) :
      xq \in (-4 * MaxDragReach)..(4 * MaxDragReach),
      yq \in (-4 * MaxDragReach)..(4 * MaxDragReach) }

ProjectInit ==
  /\ Constructed /\ hasAudioBackend = TRUE
  /\ \E s \in DragAnchors, v \in ConstraintVectors :
       \E desired \in DesiredAround(s) :
         lastOp = [NoOp EXCEPT !.arg = [desired |-> desired, s |-> s, v |-> v]]

\* The projection of _doMove for the arguments drawn
CallProjectOntoLine ==
  /\ lastOp.name = "init"
  /\ lastOp' = [lastOp EXCEPT
                  !.name = "doMove",
                  !.ret = ProjectOntoLine(lastOp.arg.desired, lastOp.arg.s, lastOp.arg.v)]
  /\ UNCHANGED << activeProgressionDegrees, progressionPlaybackMode, isProgressionPlaying,
                  progressionBeatTimer, progressionAnimationFrame, progressionBeatIndex,
                  progressionBpm, pulse, intervals, frames, beatLog, settingVars, dragVars,
                  audioVars >>

ProjectNext == CallProjectOntoLine

ProjectSpec == ProjectInit /\ [][ProjectNext]_vars

(***************************************************************************)
(* Root cells: the first placement, the mirror flags and the progression   *)
(* are set through the public API; the root lookups are called and record  *)
(* their results.                                                          *)
(***************************************************************************)
\* Degree tokens looked up: not a string, "", "I", "V", "vi", "#IV", "zz", and four
\* whose semitone (10 or 11) is labelled only in the top row: "VII", "bVII", "#VI", "bI".
RootTokens ==
  { NotAString, Str(<<>>), Str(<<"I">>), Str(<<"V">>), Str(<<"v","i">>),
    Str(<<"#","I","V">>), Str(<<"z","z">>), Str(<<"V","I","I">>),
    Str(<<"b","V","I","I">>), Str(<<"#","V","I">>), Str(<<"b","I">>) }

\* applyChordProgression arguments: those of the transport, one of four chords
\* with three roots labelled only in the top row, and one of two chords whose third
\* is labelled twice.
RootProgressions ==
  ProgressionInputs
    \cup { Some(<< Str(<<"V","I","I">>), Str(<<"I","V">>), Str(<<"b","I">>),
                   Str(<<"#","V","I">>) >>),
           Some(<< Str(<<"I","I","I">>), Str(<<"#","I","I","I">>) >>) }

\* addBrick arguments (cell-widths) for the first placement
FirstPlacements == { <<3, 2>>, <<10, 6>>, <<-2, 11>> }

\* setLeftHanded
SetLeftHanded(isLeftHandedArg) ==
  /\ isLeftHanded' = isLeftHandedArg
  /\ lastOp' = [NoOp EXCEPT !.name = "setLeftHanded"]
  /\ UNCHANGED << activeProgressionDegrees, progressionPlaybackMode, isProgressionPlaying,
                  progressionBeatTimer, progressionAnimationFrame, progressionBeatIndex,
                  progressionBpm, pulse, intervals, frames, beatLog, bricks,
                  isVerticallyMirrored, activeRiffBeats, activeStrumBeats,
                  activeStrumTimeline, hasDrumEngine, dragVars, audioVars >>

\* setVerticalMirrored
SetVerticalMirrored(isVerticalMirrored) ==
  /\ isVerticallyMirrored' = isVerticalMirrored
  /\ lastOp' = [NoOp EXCEPT !.name = "setVerticalMirrored"]
  /\ UNCHANGED << activeProgressionDegrees, progressionPlaybackMode, isProgressionPlaying,
                  progressionBeatTimer, progressionAnimationFrame, progressionBeatIndex,
                  progressionBpm, pulse, intervals, frames, beatLog, bricks, isLeftHanded,
                  activeRiffBeats, activeStrumBeats, activeStrumTimeline, hasDrumEngine,
                  dragVars, audioVars >>

\* this._findRootCellInFirstBrick(degreeToken)
CallFindRootCellInFirstBrick(degreeToken) ==
  /\ lastOp' = [NoOp EXCEPT !.name = "findRootCellInFirstBrick", !.arg = degreeToken,
                            !.ret = FindRootCellInFirstBrick(degreeToken)]
  /\ UNCHANGED << activeProgressionDegrees, progressionPlaybackMode, isProgressionPlaying,
                  progressionBeatTimer, progressionAnimationFrame, progressionBeatIndex,
                  progressionBpm, pulse, intervals, frames, beatLog, settingVars, dragVars,
                  audioVars >>

\* this._getActiveProgressionRootEntries()
CallGetActiveProgressionRootEntries ==
  /\ lastOp' = [NoOp EXCEPT !.name = "getActiveProgressionRootEntries",
                            !.ret = GetActiveProgressionRootEntries]
  /\ UNCHANGED << activeProgressionDegrees, progressionPlaybackMode, isProgressionPlaying,
                  progressionBeatTimer, progressionAnimationFrame, progressionBeatIndex,
                  progressionBpm, pulse, intervals, frames, beatLog, settingVars, dragVars,
                  audioVars >>

\* The shapeStrategy of a bass-run spec: those of _getBassRunSpec.
ShapeStrategies == {"default", "eshape513", "cshape1351"}

\* this._getBassRunShapeForChordIndex(this._getActiveProgressionRootEntries(), chordIndex, spec)
CallGetBassRunShapeForChordIndex(chordIndex, shapeStrategy) ==
  /\ lastOp' = [NoOp EXCEPT !.name = "getBassRunShapeForChordIndex",
                            !.arg = [chordIndex |-> chordIndex,
                                     shapeStrategy |-> shapeStrategy],
                            !.ret = GetBassRunShapeForChordIndex(
                                      GetActiveProgressionRootEntries, chordIndex,
                                      shapeStrategy)]
  /\ UNCHANGED << activeProgressionDegrees, progressionPlaybackMode, isProgressionPlaying,
                  progressionBeatTimer, progressionAnimationFrame, progressionBeatIndex,
                  progressionBpm, pulse, intervals, frames, beatLog, settingVars, dragVars,
                  audioVars >>

RootNext ==
  \/ \E at \in FirstPlacements : AddBrickWithin(1, at[1], at[2])
  \/ \E flag \in BOOLEAN : SetLeftHanded(flag)
  \/ \E flag \in BOOLEAN : SetVerticalMirrored(flag)
  \/ \E progression \in RootProgressions : ApplyChordProgression(progression)
  \/ \E degreeToken \in RootTokens : CallFindRootCellInFirstBrick(degreeToken)
  \/ CallGetActiveProgressionRootEntries
  \/ \E chordIndex \in 0..MaxShapeChord, shapeStrategy \in ShapeStrategies :
       CallGetBassRunShapeForChordIndex(chordIndex, shapeStrategy)

RootSpec == Init /\ [][RootNext]_vars

(***************************************************************************)
(* A whole session: the transport together with every setter of the page   *)
(* that writes a field the root entries or the beat plan read.             *)
(***************************************************************************)
\* clearBricks
ClearBricks ==
  /\ bricks' = <<>>
  /\ lastOp' = [NoOp EXCEPT !.name = "clearBricks"]
  /\ UNCHANGED << activeProgressionDegrees, progressionPlaybackMode, isProgressionPlaying,
                  progressionBeatTimer, progressionAnimationFrame, progressionBeatIndex,
                  progressionBpm, pulse, intervals, frames, beatLog, isLeftHanded,
                  isVerticallyMirrored, activeRiffBeats, activeStrumBeats,
                  activeStrumTimeline, hasDrumEngine, dragVars, audioVars >>

\* setKey: a non-string or blank key is ignored, any other is stored trimmed.
SetKey(key) ==
  /\ musicalKey' = IF ~key.str \/ Trim(key.s) = <<>> THEN musicalKey ELSE Trim(key.s)
  /\ lastOp' = [NoOp EXCEPT !.name = "setKey", !.arg = key]
  /\ UNCHANGED << activeProgressionDegrees, progressionPlaybackMode, isProgressionPlaying,
                  progressionBeatTimer, progressionAnimationFrame, progressionBeatIndex,
                  progressionBpm, pulse, intervals, frames, beatLog, settingVars, dragVars,
                  hasAudioBackend, audioCtx, audioCtxUnavailable, drumEngine, audioOp >>

KeyInputs == { NotAString, Str(<<" ","G">>) }

SessionBpmInputs == { <<"2","0","1">> }

SessionModeInputs == {"root", "eshape513"}

\* null; no token; tokens none of which is a degree; I IV.
SessionProgressions ==
  { None,
    Some(<<>>),
    Some(<< Str(<<"x">>), NotAString >>),
    Some(<< Str(<<"I">>), Str(<<"I","V">>) >>) }

SessionRiffInputs ==
  { None, Some(Str(<< "(", "0", ",", "0", "-", "2", "-", ")" >>)) }

SessionStrumInputs == { None, Some(<< Str(<<"d">>) >>) }

\* The transport with the riff and strum setters.
SessionNext ==
  \/ StartPlayback
  \/ StopPlayback
  \/ \E bpm \in SessionBpmInputs : SetProgressionBpm(bpm)
  \/ \E mode \in SessionModeInputs : SetProgressionPlaybackMode(mode)
  \/ \E progression \in SessionProgressions : ApplyChordProgression(progression)
  \/ \E riff \in SessionRiffInputs : SetRiffPattern(riff)
  \/ \E pattern \in SessionStrumInputs : SetStrumPattern(pattern)
  \/ ClockTick
  \/ AnimationFrame

SessionSpec == Init /\ [][SessionNext]_vars

\* Playback among the setters of the placements, the mirror flags, the patterns
\* and the key.
PathNext ==
  \/ StartPlayback
  \/ StopPlayback
  \/ \E mode \in SessionModeInputs : SetProgressionPlaybackMode(mode)
  \/ \E progression \in SessionProgressions : ApplyChordProgression(progression)
  \/ \E riff \in SessionRiffInputs : SetRiffPattern(riff)
  \/ \E pattern \in SessionStrumInputs : SetStrumPattern(pattern)
  \/ ClearBricks
  \/ AddBrickWithin(1, 10, 6)
  \/ \E flag \in BOOLEAN : SetLeftHanded(flag)
  \/ \E flag \in BOOLEAN : SetVerticalMirrored(flag)
  \/ \E key \in KeyInputs : SetKey(key)
  \/ ClockTickWithin(MaxSessionBeat)

PathSpec == Init /\ [][PathNext]_vars

(***************************************************************************)
(* Calls of _snapToLattice: the candidate is drawn at the start, about the *)
(* default lattice origin or the origin of a first placement; the call     *)
(* records its result.                                                     *)
(***************************************************************************)
\* Candidates on the half-cell grid, on the board and up to MaxSnapMargin around it.
NearSnapInputs ==
  { Pt(hx * (U \div 2), hy * (U \div 2)) :
      hx \in (-2 * MaxSnapMargin)..(2 * (widthCw + MaxSnapMargin)),
      hy \in (-2 * MaxSnapMargin)..(2 * (heightCw + MaxSnapMargin)) }

\* Candidates far from the board: placements dragged or added off the board.
FarSnapInputs ==
  { Pt(x * U, y * U) : x \in {-90, -60, 85, 110, 140}, y \in {-40, 7, 60} }

SnapInit ==
  /\ Constructed /\ hasAudioBackend = TRUE
  /\ \E candidate \in NearSnapInputs \cup FarSnapInputs :
       lastOp = [NoOp EXCEPT !.arg = candidate]

\* addBrick of the first placement, which moves the lattice origin
AddFirstPlacement(xCw, yCw) == lastOp.name = "init" /\ AddBrickWithin(1, xCw, yCw)

\* this._snapToLattice(candidate.x, candidate.y, originOffset) for the candidate
\* drawn; the lattice origin of the call is recorded with the candidate.
CallSnapToLattice ==
  /\ lastOp.name = "init"
  /\ lastOp' = [lastOp EXCEPT
                  !.name = "snapToLattice",
                  !.arg = [o |-> GetOneCellCenter, origin |-> lastOp.arg],
                  !.ret = SnapToLattice(GetOneCellCenter, lastOp.arg, originOffset)]
  /\ UNCHANGED << activeProgressionDegrees, progressionPlaybackMode, isProgressionPlaying,
                  progressionBeatTimer, progressionAnimationFrame, progressionBeatIndex,
                  progressionBpm, pulse, intervals, frames, beatLog, settingVars, dragVars,
                  audioVars >>

SnapNext ==
  \/ \E pos \in {<<3, 2>>, <<10, 6>>} : AddFirstPlacement(pos[1], pos[2])
  \/ CallSnapToLattice

SnapSpec == SnapInit /\ [][SnapNext]_vars

(***************************************************************************)
(* Sound: the page with or without the Web Audio API.  A progression and   *)
(* a strum pattern are set, a drum pattern is selected, the transport      *)
(* runs and the left mouse button presses the dots of the canvas.          *)
(***************************************************************************)
SoundInit == Constructed /\ hasAudioBackend \in BOOLEAN /\ lastOp = NoOp

\* applyChordProgression arguments: null; I IV V I.
SoundProgressions ==
  { None, Some(<< Str(<<"I">>), Str(<<"I","V">>), Str(<<"V">>), Str(<<"I">>) >>) }

\* setStrumPattern arguments: null; beats ["D u","x","s","ud"]; ["s","s-s","-","sd"].
SoundStrumPatterns ==
  { None,
    Some(<< Str(<<"D"," ","u">>), Str(<<"x">>), Str(<<"s">>), Str(<<"u","d">>) >>),
    Some(<< Str(<<"s">>), Str(<<"s","-","s">>), Str(<<"-">>), Str(<<"s","d">>) >>) }

\* The patterns of the datasets: four beats each, and one of three beats.
RockPattern == [id |-> "rock", beats |-> DrumPattern]
HalfPattern == [id |-> "half", beats |-> << <<"kick">>, <<>>, <<"snare">>, <<>> >>]
ShortPattern == [id |-> "short", beats |-> << <<"kick">>, <<"hat">>, <<"snare">> >>]

\* DrumEngine.setDrumbeats, from the page
SetDrumbeats(drumbeats) ==
  /\ drumEngine' = SetDrumbeatsOn(drumEngine, drumbeats)
  /\ lastOp' = [NoOp EXCEPT !.name = "setDrumbeats", !.arg = drumbeats]
  /\ audioOp' = NoAudioOp
  /\ UNCHANGED << activeProgressionDegrees, progressionPlaybackMode, isProgressionPlaying,
                  progressionBeatTimer, progressionAnimationFrame, progressionBeatIndex,
                  progressionBpm, pulse, intervals, frames, beatLog, settingVars, dragVars,
                  hasAudioBackend, musicalKey, audioCtx, audioCtxUnavailable >>

\* DrumEngine.setSelectedPattern, from the page
SetSelectedPattern(patternId) ==
  /\ drumEngine' = SetSelectedPatternOn(drumEngine, patternId)
  /\ lastOp' = [NoOp EXCEPT !.name = "setSelectedPattern", !.arg = patternId]
  /\ audioOp' = NoAudioOp
  /\ UNCHANGED << activeProgressionDegrees, progressionPlaybackMode, isProgressionPlaying,
                  progressionBeatTimer, progressionAnimationFrame, progressionBeatIndex,
                  progressionBpm, pulse, intervals, frames, beatLog, settingVars, dragVars,
                  hasAudioBackend, musicalKey, audioCtx, audioCtxUnavailable >>

SoundNext ==
  \/ \E progression \in SoundProgressions : ApplyChordProgression(progression)
  \/ \E pattern \in SoundStrumPatterns : SetStrumPattern(pattern)
  \/ \E present \in BOOLEAN : SetDrumEngine(present)
  \/ \E drumbeats \in {None, Some(<< RockPattern >>)} : SetDrumbeats(drumbeats)
  \/ StartPlayback
  \/ StopPlayback
  \/ ClockTick
  \/ \E e \in LeftMouseEvents : PointerStart(e)
  \/ \E e \in LeftMouseEvents : PointerEnd(e)

SoundSpec == SoundInit /\ [][SoundNext]_vars

(***************************************************************************)
(* The drum engine on its own: datasets are loaded, patterns selected and  *)
(* beats played, with or without the Web Audio API.                        *)
(***************************************************************************)
\* setDrumbeats arguments: no dataset; no patterns; one pattern; a pattern of three
\* beats and two of four.
DrumDatasets ==
  { None, Some(<<>>), Some(<< RockPattern >>),
    Some(<< ShortPattern, HalfPattern, RockPattern >>) }

\* setSelectedPattern arguments: "", the ids of the datasets, an id of none, and a
\* property name every object inherits.
PatternIdInputs == {"", "rock", "half", "short", "nope", "constructor"}

\* DrumEngine.playBeat, called for a beat
CallPlayBeat(beatIndex) ==
  /\ With(DrumEnginePlayBeat(drumEngine, NoAudio, beatIndex), LAMBDA r :
       /\ drumEngine' = [drumEngine EXCEPT !.audio = r.a]
       /\ audioOp' = [tone |-> NoAudio, drum |-> r.log])
  /\ lastOp' = [NoOp EXCEPT !.name = "playBeat", !.arg = beatIndex]
  /\ UNCHANGED << activeProgressionDegrees, progressionPlaybackMode, isProgressionPlaying,
                  progressionBeatTimer, progressionAnimationFrame, progressionBeatIndex,
                  progressionBpm, pulse, intervals, frames, beatLog, settingVars, dragVars,
                  hasAudioBackend, musicalKey, audioCtx, audioCtxUnavailable >>

DrumNext ==
  \/ \E drumbeats \in DrumDatasets : SetDrumbeats(drumbeats)
  \/ \E patternId \in PatternIdInputs : SetSelectedPattern(patternId)
  \/ \E beatIndex \in 0..MaxDrumBeat : CallPlayBeat(beatIndex)

DrumSpec == SoundInit /\ [][DrumNext]_vars

(***************************************************************************)
(* Properties of the transport.                                            *)
(***************************************************************************)
\* The transport's own fields and the host's timers.
transportState ==
  << isProgressionPlaying, progressionBeatTimer, progressionAnimationFrame,
     progressionBeatIndex, progressionBpm, pulse, intervals, frames >>

StoppedTransport ==
  /\ ~isProgressionPlaying
  /\ progressionBeatIndex = 0
  /\ progressionBeatTimer = 0 /\ intervals = {}
  /\ progressionAnimationFrame = 0 /\ frames = {}
  /\ pulse = ClearedPulse

\* C1: after stopProgressionPlayback returns the transport is inactive with beat
\* index 0, no clock, no animation callback and cleared interpolation endpoints;
\* and while the transport is inactive no step other than a successful start
\* dispatches a beat, runs a clock tick or an animation tick, or makes it active.
C1_StopIsTotal ==
  /\ [](lastOp.name = "stop" => StoppedTransport)
  /\ [][(~isProgressionPlaying /\ ~(lastOp'.name = "start" /\ lastOp'.ret = "true"))
          => /\ ~isProgressionPlaying'
             /\ lastOp'.dispatched = <<>>
             /\ lastOp'.name \notin {"tick", "frame"}]_vars

C1_Witness ==
  /\ lastOp.name = "stop" /\ lastOp.wasPlaying /\ lastOp.notified = 1
  /\ lastOp.prevBeatIndex >= 2
  /\ StoppedTransport

\* C2: in every reachable state the host holds at most one beat-clock interval
\* and at most one animation-frame callback, and each is the one whose handle
\* the transport stores.
C2_AtMostOneClockAndFrame ==
  /\ Cardinality(intervals) <= 1
  /\ Cardinality(frames) <= 1
  /\ \A iv \in intervals : iv.id = progressionBeatTimer
  /\ \A id \in frames : id = progressionAnimationFrame

C2_Witness ==
  /\ lastOp.name = "setBpm" /\ lastOp.wasPlaying
  /\ Cardinality(intervals) = 1 /\ Cardinality(frames) = 1
  /\ lastOp.prevBeatIndex >= 2

\* No degree token of the active progression parses (null, empty, or malformed only).
NoTokenResolves ==
  \/ ~IsSome(activeProgressionDegrees)
  \/ \A i \in 1..Len(Val(activeProgressionDegrees)) :
       ~IsSome(ParseDegreeToken(Val(activeProgressionDegrees)[i]))

\* C3: startProgressionPlayback on an inactive transport whose progression has no
\* resolvable token returns false, dispatches nothing, notifies nobody and leaves
\* the transport and the host's timers as they were.
C3_StartWithoutPathRefuses ==
  [][(lastOp'.name = "start" /\ ~isProgressionPlaying /\ NoTokenResolves)
       => /\ lastOp'.ret = "false"
          /\ lastOp'.notified = 0
          /\ lastOp'.dispatched = <<>>
          /\ UNCHANGED transportState]_vars

C3_Witness ==
  /\ lastOp.name = "start" /\ lastOp.ret = "false"
  /\ IsSome(activeProgressionDegrees) /\ NoTokenResolves
  /\ Len(bricks) > 0
  /\ StoppedTransport

\* The host's timers are exactly one clock of period 60000/bpm ms for the stored handle.
OneClockAt(live, handle, bpm) ==
  /\ handle # 0
  /\ Cardinality(live) = 1
  /\ \A iv \in live : iv.id = handle /\ iv.ms.num = 60000 /\ iv.ms.den = bpm

\* C4: a successful startProgressionPlayback from the inactive state dispatches
\* exactly beat 0 before it returns (beat index 1 on return), leaves one clock of
\* period 60000/BPM and one pending animation callback, sets the transport active
\* and notifies the subscriber exactly once.
C4_StartPlaysBeatZero ==
  [][(lastOp'.name = "start" /\ ~isProgressionPlaying /\ lastOp'.ret = "true")
       => /\ isProgressionPlaying'
          /\ progressionBeatIndex' = 1
          /\ Len(lastOp'.dispatched) = 1 /\ lastOp'.dispatched[1].beat = 0
          /\ OneClockAt(intervals', progressionBeatTimer', progressionBpm')
          /\ progressionAnimationFrame' # 0 /\ frames' = {progressionAnimationFrame'}
          /\ lastOp'.notified = 1]_vars

C4_Witness ==
  /\ lastOp.name = "start" /\ lastOp.ret = "true" /\ ~lastOp.wasPlaying
  /\ isProgressionPlaying /\ progressionBeatIndex = 1
  /\ progressionBpm = 120

\* C5: a stop call notifies exactly when the transport was active at the call, and
\* a stop call that directly follows a stop call notifies nobody and leaves the
\* transport state as the first one left it.
C5_StopIsIdempotent ==
  [][lastOp'.name = "stop"
       => /\ lastOp'.notified = (IF isProgressionPlaying THEN 1 ELSE 0)
          /\ (lastOp.name = "stop"
                => lastOp'.notified = 0 /\ UNCHANGED transportState)]_vars

C5_Witness ==
  /\ lastOp.name = "stop" /\ lastOp.afterActiveStop
  /\ lastOp.notified = 0 /\ ~lastOp.wasPlaying

\* The plans _playProgressionBeat computes in the current state.
CurrentBeatPlan ==
  Val(GetProgressionBeatPlan(progressionBeatIndex, GetActiveProgressionRootEntries))

NextBeatPlan ==
  Val(GetProgressionBeatPlan(progressionBeatIndex + 1, GetActiveProgressionRootEntries))

\* C6: while the transport is active the beats dispatched since the start are
\* 0, 1, 2, ... up to the beat index, without gap or repeat; a clock tick
\* dispatches exactly the current beat, with the drum engine called on (index
\* mod 4) and one audio call per event of the current plan, records the current
\* and the next plan's note cells as interpolation endpoints and advances the
\* beat index by one.
C6_BeatsInOrder ==
  /\ [](isProgressionPlaying => beatLog = [i \in 1..progressionBeatIndex |-> i - 1])
  /\ [][(lastOp'.name = "tick" /\ isProgressionPlaying)
          => /\ progressionBeatIndex' = progressionBeatIndex + 1
             /\ Len(lastOp'.dispatched) = 1
             /\ lastOp'.dispatched[1].beat = progressionBeatIndex
             /\ lastOp'.dispatched[1].drum =
                  (IF hasDrumEngine THEN Some(progressionBeatIndex % 4) ELSE None)
             /\ Len(lastOp'.dispatched[1].calls) = Len(CurrentBeatPlan.noteEvents)
             /\ \A i \in 1..Len(CurrentBeatPlan.noteEvents) :
                  lastOp'.dispatched[1].calls[i].cell = CurrentBeatPlan.noteEvents[i].cell
             /\ pulse'.fromCells = CurrentBeatPlan.noteCells
             /\ pulse'.toCells = NextBeatPlan.noteCells
             /\ pulse'.progress = 0]_vars

C6_Witness ==
  /\ lastOp.name = "tick" /\ isProgressionPlaying /\ hasDrumEngine
  /\ progressionBeatIndex = 5
  /\ beatLog = <<0, 1, 2, 3, 4>>

\* C7: setProgressionBpm leaves the active flag, the beat index, the interpolation
\* endpoints and the animation callback as they were and dispatches nothing;
\* on an active transport the host then holds exactly one clock, of the new
\* period, and on an inactive one it holds none.
C7_BpmRestartsOnlyTheClock ==
  [][lastOp'.name = "setBpm"
       => /\ UNCHANGED << isProgressionPlaying, progressionBeatIndex, pulse,
                          progressionAnimationFrame, frames >>
          /\ lastOp'.dispatched = <<>> /\ lastOp'.notified = 0
          /\ IF isProgressionPlaying
             THEN OneClockAt(intervals', progressionBeatTimer', progressionBpm')
             ELSE intervals' = {} /\ progressionBeatTimer' = 0]_vars

C7_Witness ==
  /\ lastOp.name = "setBpm" /\ lastOp.wasPlaying /\ isProgressionPlaying
  /\ progressionBeatIndex = 3 /\ progressionBpm = 200
  /\ OneClockAt(intervals, progressionBeatTimer, 200)

\* What setProgressionBpm is to store for each argument: <<argument, stored BPM>>.
BpmCases ==
  { << <<"5","9">>, 60 >>, << <<"2","0","1">>, 200 >>, << <<"1","2","0">>, 120 >>,
    << <<"0">>, 60 >>, << <<"a","b","c">>, 60 >>, << <<"-","7","5">>, 60 >>,
    << <<"1","2","0",".","7">>, 120 >> }

\* C8: the stored BPM is always an integer in 60..200, and after a
\* setProgressionBpm call it is the argument's integer value clamped to that
\* range, 60 for an argument that does not parse (59 gives 60, 201 gives 200).
C8_BpmClamped ==
  /\ progressionBpm \in 60..200
  /\ lastOp.name = "setBpm"
       => \E c \in BpmCases : c[1] = lastOp.arg /\ progressionBpm = c[2]

C8_Witness ==
  /\ lastOp.name = "setBpm" /\ lastOp.arg = <<"2","0","1">>
  /\ progressionBpm = 200

\* C9: a setProgressionPlaybackMode call that changes the stored mode of an
\* active transport leaves it inactive with beat index 0 and no clock, and
\* notifies the subscriber once; an inactive transport becomes active only by
\* startProgressionPlayback.
C9_ModeChangeStops ==
  [][/\ (lastOp'.name = "setMode" /\ isProgressionPlaying
           /\ progressionPlaybackMode' # progressionPlaybackMode)
          => /\ ~isProgressionPlaying'
             /\ progressionBeatIndex' = 0
             /\ progressionBeatTimer' = 0 /\ intervals' = {}
             /\ lastOp'.notified = 1
     /\ (~isProgressionPlaying /\ isProgressionPlaying') => lastOp'.name = "start"]_vars

C9_Witness ==
  /\ lastOp.name = "setMode" /\ lastOp.wasPlaying /\ lastOp.notified = 1
  /\ progressionPlaybackMode = "eshape513"
  /\ lastOp.prevBeatIndex >= 2
  /\ ~isProgressionPlaying

(***************************************************************************)
(* Properties of the drag session.                                         *)
(***************************************************************************)
\* cross(p - s, v)
Cross(p, s, v) == (p.x - s.x) * v.y - (p.y - s.y) * v.x

\* The dragged placement's origin cell is on the line through the session's
\* anchor along the constraint vector now active.
OnConstraintLine ==
  Cross(OriginOf(bricks[dragItem]), Val(dragStartOrigin), dragConstraintVector) = 0

Idle == ~IsSome(pendingDragCopy) /\ dragItem = 0 /\ ~IsSome(dragStartOrigin)

PendingCopy == IsSome(pendingDragCopy) /\ dragItem = 0

Dragging == dragItem # 0

\* The pointer of the event is more than 0.35 cell-widths from the press of the pending hold.
Drifted(e) ==
  \/ Abs(PxToCw(e.client).x - Val(pendingDragCopy).startCw.x) > U
  \/ Abs(PxToCw(e.client).y - Val(pendingDragCopy).startCw.y) > U
  \/ 400 * PtSqDist(PxToCw(e.client), Val(pendingDragCopy).startCw) > 49 * U * U

\* The step is a pointer move that drifted from the press, or a release.
DriftOrRelease ==
  \/ \E e \in MoveEvents : Drifted(e) /\ PointerMove(e)
  \/ \E e \in EndEvents : PointerEnd(e)

\* C11: from PendingCopy, a pointer move more than 0.35 cell-widths from the
\* press, or a release, leaves the machine Idle with the placements as they
\* were and with no hold timer left that could start a drag.
C11_CancelReturnsToIdle ==
  [][(PendingCopy /\ DriftOrRelease)
       => (Idle' /\ bricks' = bricks /\ timeouts' = {})]_vars

\* The point is an integer lattice point o + a (2,-2) + b (5,1) of the placements' lattice.
OnLattice(items, pt) ==
  With(GlobalToLattice(OneCellCenterOf(items), pt.x, pt.y), LAMBDA lab :
    lab.aNum % (12 * U) = 0 /\ lab.bNum % (6 * U) = 0)

\* The step runs the hold timer of the pending copy.
HoldTimerStep ==
  /\ Val(pendingDragCopy).timerId \in timeouts
  /\ dragOp'.name = "timer"

\* C12: when the hold timer fires in PendingCopy, one placement is appended, which
\* is the drag item; its origin cell is on an integer lattice point, which is the
\* anchor of the session; and the placements that existed stay where they were.
C12_TimerStartsDragOnLattice ==
  [][(PendingCopy /\ HoldTimerStep)
       => /\ Len(bricks') = Len(bricks) + 1
          /\ SubSeq(bricks', 1, Len(bricks)) = bricks
          /\ dragItem' = Len(bricks') /\ ~IsSome(pendingDragCopy')
          /\ IsSome(dragStartOrigin')
          /\ OnLattice(bricks', Val(dragStartOrigin'))
          /\ OriginOf(bricks'[dragItem']) = Val(dragStartOrigin')]_vars

\* The step delivers a release or cancel event (mouseup, touchend, touchcancel).
ReleaseStep == \E e \in EndEvents : PointerEnd(e)

\* Only the dragged placement moves, and a session drags the placement it appended.
OnlyDragItemMoves ==
  /\ Len(bricks') >= Len(bricks)
  /\ \A i \in 1..Len(bricks) : i # dragItem => bricks'[i] = bricks[i]
  /\ dragItem' \in {0, dragItem, Len(bricks) + 1}

\* C13: a release or cancel event received during a drag puts the origin cell of the
\* dragged placement on an integer lattice point and leaves no drag item and no
\* anchor; a placement that is not being dragged never moves, and no later session
\* drags it again, so it stays on that point.
C13_ReleaseSnapsAndIdles ==
  [][/\ (Dragging /\ ReleaseStep)
          => /\ Idle'
             /\ OnLattice(bricks', OriginOf(bricks'[dragItem]))
     /\ OnlyDragItemMoves]_vars

\* The step delivers a touchstart that leaves two or more touches on the screen.
TwoFingerStart == \E e \in StartEvents : e.touch /\ e.touches >= 2 /\ PointerStart(e)

\* C14: right after a touch start with two or more touches there is no pending copy
\* and no armed hold timer, and no drag in progress (a placement that was being
\* dragged sits on an integer lattice point); and whenever the two-finger gesture is
\* active there is neither a drag session nor a pending copy.
C14_GestureExcludesDrag ==
  [][/\ TwoFingerStart
          => /\ touchGesture' /\ Idle' /\ timeouts' = {}
             /\ (dragItem # 0 => OnLattice(bricks', OriginOf(bricks'[dragItem])))
     /\ touchGesture' => (~IsSome(pendingDragCopy') /\ dragItem' = 0)]_vars

(***************************************************************************)
(* Properties of the lattice transforms and the snap.                      *)
(***************************************************************************)
LatticeIndices == (-MaxLatticeIndex)..MaxLatticeIndex

\* C15: for integers (a, b) and the lattice origin O of the placement list,
\* _latticeToGlobal(a, b) is O + a (2, -2) + b (5, 1), and _globalToLattice of that
\* point is (a, b) exactly (numerators 12 U a and 6 U b, no remainder).
C15_LatticeRoundTrip ==
  \A a \in LatticeIndices, b \in LatticeIndices :
    With(LatticeToGlobal(GetOneCellCenter, a, b), LAMBDA p :
      /\ p.x = GetOneCellCenter.xCw + a * 2 * U + b * 5 * U
      /\ p.y = GetOneCellCenter.yCw + a * (-2) * U + b * 1 * U
      /\ GlobalToLattice(GetOneCellCenter, p.x, p.y) = [aNum |-> 12 * U * a, bNum |-> 6 * U * b])

\* A drag anchor sits on a lattice point other than the origin of a lattice that the
\* first placement, not the default, defines.
C15_Witness ==
  /\ Len(bricks) > 0 /\ GetOneCellCenter # defaultOneCellCenterCw
  /\ IsSome(dragStartOrigin)
  /\ \E a \in LatticeIndices, b \in LatticeIndices :
       /\ a # 0 /\ b # 0
       /\ Val(dragStartOrigin) = LatticeToGlobal(GetOneCellCenter, a, b)

\* The origin-cell positions of the placements whose top-left is a whole-cell
\* position on the board (0..maxX by 0..maxY of _snapToLattice).
SnapCandidates ==
  { Pt((x + originOffset.col) * U, (y + originOffset.row) * U) :
      x \in 0..(widthCw - brickWidthCw), y \in 0..(heightCw - brickHeightCw) }

\* No in-bounds lattice point has a coordinate beyond this (|a| <= (maxX + 5 maxY) / 12,
\* |b| <= (maxX + maxY) / 6).
BoardLatticeReach == ((widthCw - brickWidthCw) + 5 * (heightCw - brickHeightCw)) \div 12 + 1

\* The lattice points about o at which a placement is in bounds.
BoardLatticePoints(o) ==
  { pt \in { LatticeToGlobal(o, a, b) : a \in (-BoardLatticeReach)..BoardLatticeReach,
                                        b \in (-BoardLatticeReach)..BoardLatticeReach } :
      InBounds(pt, originOffset) }

\* C16: for every in-bounds candidate, _snapToLattice returns an in-bounds lattice
\* point, and no in-bounds lattice point is nearer to the candidate than it.
C16_SnapIsNearestInBounds ==
  With(BoardLatticePoints(GetOneCellCenter), LAMBDA points :
    \A cand \in SnapCandidates :
      With(SnapToLattice(GetOneCellCenter, cand, originOffset), LAMBDA snapped :
        /\ snapped \in points
        /\ \A other \in points : PtSqDist(snapped, cand) <= PtSqDist(other, cand)))

(***************************************************************************)
(* Properties of the degree and beat-plan functions.                       *)
(***************************************************************************)
IsAccidental(c) == c \in {"#", "b"}

\* chars is k accidentals followed by a roman numeral I..VII in upper or lower case.
IsDegreeAt(chars, k) ==
  /\ \A i \in 1..k : IsAccidental(chars[i])
  /\ \E n \in 1..Len(degreeOrder) : ToUpperCase(SubSeq(chars, k + 1, Len(chars))) = degreeOrder[n]

IsDegree(chars) == \E k \in 0..Len(chars) : IsDegreeAt(chars, k)

\* (table[index] + accidentals) mod 12 of such a token.
DegreeSemitone(chars) ==
  With(CHOOSE k \in 0..Len(chars) : IsDegreeAt(chars, k), LAMBDA k :
  With(CHOOSE n \in 1..Len(degreeOrder) :
         ToUpperCase(SubSeq(chars, k + 1, Len(chars))) = degreeOrder[n], LAMBDA n :
    (scaleSemitones[n] + Cardinality({i \in 1..k : chars[i] = "#"})
                       - Cardinality({i \in 1..k : chars[i] = "b"})) % 12))

DegreeCalled == lastOp.name = "degreeToSemitoneOffset"

\* C17 as stated: a token that is a run of accidentals and a roman numeral yields
\* (table[index] + accidentals) mod 12, a value in 0..11; every other argument
\* yields no value.
C17_DegreeToSemitoneAsStated ==
  DegreeCalled =>
    IF lastOp.arg.str /\ IsDegree(lastOp.arg.s)
    THEN lastOp.ret = Some(DegreeSemitone(lastOp.arg.s)) /\ Val(lastOp.ret) \in 0..11
    ELSE lastOp.ret = None

\* C17, amended: the same of the token with the white space around it removed.
C17_DegreeToSemitoneOfTrimmed ==
  DegreeCalled =>
    IF lastOp.arg.str /\ IsDegree(Trim(lastOp.arg.s))
    THEN lastOp.ret = Some(DegreeSemitone(Trim(lastOp.arg.s))) /\ Val(lastOp.ret) \in 0..11
    ELSE lastOp.ret = None

\* The call with "bVII" returned 10.
C17_Witness ==
  DegreeCalled /\ lastOp.arg = Str(<<"b", "V", "I", "I">>) /\ lastOp.ret = Some(10)

PlanCalled == lastOp.name = "getProgressionBeatPlan"

\* The chord shape the selected mode uses for chord number chord (0-based).
ModeShape(chord) ==
  Val(GetBassRunShapeForChordIndex(GetActiveProgressionRootEntries, chord,
                                   BassRunSpecs(progressionPlaybackMode).shapeStrategy))

\* The cell the selected mode's sequence names at place pos (0-based) of that chord.
ModeCell(chord, pos) ==
  ResolveBassRunTokenCell(ModeShape(chord), BassRunSpecs(progressionPlaybackMode).sequence[pos + 1])

\* C18: with no riff and no strum pattern, the plan of beat i has exactly one note
\* event, at delay 0 and one beat long, on the cell the mode's sequence names at
\* i mod 4 in the shape of chord floor(i / 4) mod N (its root cell for a root token of
\* the plain shape), N being the number of root entries; the plan of beat i + 4 N
\* is the same.
C18_BassRunPlan ==
  (PlanCalled /\ activeRiffBeats = None /\ activeStrumBeats = None
     /\ Len(GetActiveProgressionRootEntries) > 0)
  => With(Len(GetActiveProgressionRootEntries), LAMBDA n :
     With((lastOp.arg \div 4) % n, LAMBDA chord :
       /\ IsSome(lastOp.ret)
       /\ Len(Val(lastOp.ret).noteEvents) = 1
       /\ Val(lastOp.ret).noteEvents[1].delayBeats = 0
       /\ Val(lastOp.ret).noteEvents[1].durationBeats = 1 * BeatUnit
       /\ Val(lastOp.ret).noteEvents[1].cell = ModeCell(chord, lastOp.arg % 4)
       /\ (progressionPlaybackMode \in {"root", "root5th"} /\ lastOp.arg % 2 = 0)
            => Val(lastOp.ret).noteEvents[1].cell
                 = Some(GetActiveProgressionRootEntries[chord + 1].rootCell)
       /\ GetProgressionBeatPlan(lastOp.arg + 4 * n, GetActiveProgressionRootEntries)
            = lastOp.ret))

\* Beat 8 of I IV V I in mode root5th was planned on the root of V, which is not
\* the root of I.
C18_Witness ==
  /\ PlanCalled /\ lastOp.arg = 8
  /\ activeRiffBeats = None /\ activeStrumBeats = None
  /\ progressionPlaybackMode = "root5th"
  /\ activeProgressionDegrees
       = Some(<< Str(<<"I">>), Str(<<"I","V">>), Str(<<"V">>), Str(<<"I">>) >>)
  /\ Val(lastOp.ret).noteEvents[1].cell = Some(GetActiveProgressionRootEntries[3].rootCell)
  /\ GetActiveProgressionRootEntries[3].rootCell # GetActiveProgressionRootEntries[1].rootCell

\* The plan was made from the strum pattern: a pattern is active, the progression
\* resolves, and the riff (if any) has no note in the beat.
StrumPlanned ==
  /\ PlanCalled /\ IsSome(lastOp.ret) /\ IsSome(activeStrumBeats)
  /\ activeRiffBeats = None \/ Val(activeRiffBeats)[(lastOp.arg % 4) + 1] = <<>>

\* The times, in the bar, of the d, u and s symbols of the active pattern: symbol
\* k of the n symbols of beat b is at b + k / n.
StrumActionTimes ==
  UNION { { b * BeatUnit + (k * BeatUnit) \div Len(Val(activeStrumBeats)[b + 1]) :
              k \in { k \in 0..(Len(Val(activeStrumBeats)[b + 1]) - 1) :
                        Val(activeStrumBeats)[b + 1][k + 1] \in {"d", "u", "s"} } } :
          b \in 0..(progressionBeatsPerChord - 1) }

\* The time of the first action later than time, the end of the bar without one.
NextActionTime(time) ==
  With({ t \in StrumActionTimes : t > time } \cup { progressionBeatsPerChord * BeatUnit },
       LAMBDA later : CHOOSE t \in later : \A o \in later : t <= o)

\* String j of symbol k of the token of the beat (n symbols): root, third, fifth
\* for d and the reverse for u, at delay k / n + j * 0.05.
StrumString(token, shape, beat, k, j) ==
  [symbol |-> token[k + 1],
   cell |-> ResolveBassRunTokenCell(shape,
              IF token[k + 1] = "u" THEN <<"fifth", "third", "root">>[j + 1]
              ELSE <<"root", "third", "fifth">>[j + 1]),
   delayBeats |-> (k * BeatUnit) \div Len(token) + j * (BeatUnit \div 20),
   boundary |-> NextActionTime(beat * BeatUnit + (k * BeatUnit) \div Len(token)) - beat * BeatUnit]

\* The strings of all strokes of the token, in order.
StrumStrings(token, shape, beat) ==
  [m \in 1..(3 * Len(token)) |-> StrumString(token, shape, beat, (m - 1) \div 3, (m - 1) % 3)]

\* Cell and delay of the selected strings.
Onsets(strings) == [m \in 1..Len(strings) |-> [cell |-> strings[m].cell, delayBeats |-> strings[m].delayBeats]]

\* The strum events of a plan, in order.
PlannedStrumOnsets(plan) == Onsets(SelectSeq(plan.noteEvents, LAMBDA ev : ev.kind = "strum"))

\* C19 as stated: every d and u symbol of the beat's token yields its three strings,
\* in order, string j of symbol k at delay k / n + j * 0.05.
C19_StrokesAsStated ==
  StrumPlanned =>
    PlannedStrumOnsets(Val(lastOp.ret))
      = Onsets(SelectSeq(StrumStrings(Val(activeStrumBeats)[(lastOp.arg % 4) + 1],
                                      Val(lastOp.ret).shape, lastOp.arg % 4),
                         LAMBDA str : str.symbol \in {"d", "u"}))

\* C19, amended: the same, of the strings whose onset is before the end of the beat
\* and before the next later action of the bar (the end of the bar without one); the
\* other strings are not emitted.
C19_StrokesBeforeBoundary ==
  StrumPlanned =>
    PlannedStrumOnsets(Val(lastOp.ret))
      = Onsets(SelectSeq(StrumStrings(Val(activeStrumBeats)[(lastOp.arg % 4) + 1],
                                      Val(lastOp.ret).shape, lastOp.arg % 4),
                         LAMBDA str : /\ str.symbol \in {"d", "u"}
                                      /\ str.delayBeats < str.boundary
                                      /\ str.delayBeats < 1 * BeatUnit))

\* Beat 2 of the pattern d - du u was planned: a d stroke at 0, 0.05 and 0.10 on
\* root, third, fifth, then a u stroke at 0.5, 0.55 and 0.60 on fifth, third, root.
C19_Witness ==
  /\ StrumPlanned /\ lastOp.arg = 2
  /\ Val(activeStrumBeats) = << <<"d">>, <<"-">>, <<"d", "u">>, <<"u">> >>
  /\ With(Val(lastOp.ret), LAMBDA plan :
       /\ [m \in 1..6 |-> plan.noteEvents[m].delayBeats]
            = << 0, BeatUnit \div 20, BeatUnit \div 10,
                 BeatUnit \div 2, (11 * BeatUnit) \div 20, (3 * BeatUnit) \div 5 >>
       /\ [m \in 1..6 |-> plan.noteEvents[m].cell]
            = << Some(plan.shape.root), Some(plan.shape.third), Some(plan.shape.fifth),
                 Some(plan.shape.fifth), Some(plan.shape.third), Some(plan.shape.root) >>
       /\ Len(plan.noteEvents) = 6)

\* The notes the active riff has for the beat of the call (none without a riff).
RiffNotesOfBeat ==
  IF IsSome(activeRiffBeats) THEN Val(activeRiffBeats)[(lastOp.arg % 4) + 1] ELSE <<>>

\* The active strum pattern has an action in the beat of the call.
StrumActsInBeat ==
  /\ IsSome(activeStrumBeats)
  /\ \E t \in StrumActionTimes :
       (lastOp.arg % 4) * BeatUnit <= t /\ t < ((lastOp.arg % 4) + 1) * BeatUnit

\* The events are the riff's notes of the beat, each at delay 0 and one beat long.
RiffEmitted(plan) ==
  /\ Len(plan.noteEvents) = Len(RiffNotesOfBeat)
  /\ \A m \in 1..Len(plan.noteEvents) :
       plan.noteEvents[m]
         = NoteEvent("note",
                     Some(FretspaceDeltaToWorldFromRoot(Some(plan.shape.root),
                            RiffNotesOfBeat[m].x, RiffNotesOfBeat[m].y)[1]),
                     0, 1 * BeatUnit)

\* The events are strum events (strokes and slaps), at least one.
StrumEmitted(plan) ==
  /\ Len(plan.noteEvents) > 0
  /\ \A m \in 1..Len(plan.noteEvents) : plan.noteEvents[m].kind \in {"strum", "slap"}

\* The one event is the bass-run token of the selected mode for the beat.
BassRunEmitted(plan) ==
  plan.noteEvents
    = << NoteEvent("note",
                   ModeCell((lastOp.arg \div 4) % Len(GetActiveProgressionRootEntries),
                            lastOp.arg % 4),
                   0, 1 * BeatUnit) >>

\* C20 as stated: the riff's notes when it has one for the beat; else the strum
\* events when the active pattern has an action in the beat; else, a silent beat
\* of an active pattern included, the bass-run token of the mode.
C20_PrecedenceAsStated ==
  (PlanCalled /\ IsSome(lastOp.ret)) =>
    With(Val(lastOp.ret), LAMBDA plan :
      IF RiffNotesOfBeat # <<>> THEN RiffEmitted(plan)
      ELSE IF StrumActsInBeat THEN StrumEmitted(plan)
      ELSE BassRunEmitted(plan))

\* C20, amended: the same, except that in a beat in which an active strum pattern
\* has no action nothing is emitted; the bass-run token is emitted only when no
\* strum pattern is active.
C20_PrecedenceStrumSilencesBass ==
  (PlanCalled /\ IsSome(lastOp.ret)) =>
    With(Val(lastOp.ret), LAMBDA plan :
      IF RiffNotesOfBeat # <<>> THEN RiffEmitted(plan)
      ELSE IF StrumActsInBeat THEN StrumEmitted(plan)
      ELSE IF IsSome(activeStrumBeats) THEN plan.noteEvents = <<>>
      ELSE BassRunEmitted(plan))

\* A beat was planned from the riff while a strum pattern with an action in that
\* beat was active.
C20_Witness ==
  /\ PlanCalled /\ IsSome(lastOp.ret)
  /\ RiffNotesOfBeat # <<>> /\ StrumActsInBeat
  /\ RiffEmitted(Val(lastOp.ret))

(***************************************************************************)
(* Properties of the audio calls.                                          *)
(***************************************************************************)
\* The calls of one handler found no backend: nothing was constructed or
\* sounded, and the constructor was looked up once, by the first call made
\* while the absence was not yet cached.
Silent(log, wasUnavailable) ==
  /\ log.created = 0
  /\ log.sounded = <<>>
  /\ log.lookups = (IF wasUnavailable \/ log.calls = 0 THEN 0 ELSE 1)

\* The transport fields of a handler's result, and what it notified and dispatched.
TransportView(t) ==
  [playing |-> t.playing, timer |-> t.timer, frame |-> t.frame, beatIndex |-> t.beatIndex,
   bpm |-> t.bpm, pulse |-> t.pulse, intervals |-> t.intervals, frames |-> t.frames,
   notified |-> t.notified, dispatched |-> t.dispatched]

\* The transport with a context already created in both engines.
WithAudio(t) ==
  [t EXCEPT !.audio = [ctx |-> TRUE, unavailable |-> FALSE],
            !.drum.audio = [ctx |-> TRUE, unavailable |-> FALSE]]

\* The transport a step leaves, with what lastOp recorded of the handler.
AfterHandler ==
  [playing |-> isProgressionPlaying', timer |-> progressionBeatTimer',
   frame |-> progressionAnimationFrame', beatIndex |-> progressionBeatIndex',
   bpm |-> progressionBpm', pulse |-> pulse', intervals |-> intervals', frames |-> frames',
   notified |-> lastOp'.notified, dispatched |-> lastOp'.dispatched]

\* C21: without an audio backend the first audio call of each engine caches the
\* absence (the flag is set exactly when a call was made), no context is ever
\* constructed, the constructor is looked up only by that first call, no voice
\* sounds, and a start or a clock tick leaves the transport, its notifications
\* and its dispatched beats exactly as the same handler does with a context at hand.
C21_SilentWithoutBackend ==
  [][~hasAudioBackend =>
       /\ ~audioCtx' /\ ~drumEngine'.audio.ctx
       /\ audioCtxUnavailable' = (audioCtxUnavailable \/ audioOp'.tone.calls > 0)
       /\ drumEngine'.audio.unavailable
            = (drumEngine.audio.unavailable \/ audioOp'.drum.calls > 0)
       /\ Silent(audioOp'.tone, audioCtxUnavailable)
       /\ Silent(audioOp'.drum, drumEngine.audio.unavailable)
       /\ (lastOp'.name = "start" /\ transportVars' # transportVars
             => AfterHandler = TransportView(StartProgressionPlayback(WithAudio(Transport))[1]))
       /\ (lastOp'.name = "tick" /\ transportVars' # transportVars
             => AfterHandler = TransportView(PlayProgressionBeat(WithAudio(Transport))))
    ]_vars

\* A third beat ticks without a backend: both engines have cached the absence,
\* both were called again, and the transport is running.
C21_Witness ==
  /\ ~hasAudioBackend
  /\ lastOp.name = "tick" /\ lastOp.wasPlaying /\ lastOp.prevBeatIndex = 2
  /\ isProgressionPlaying /\ progressionBeatIndex = 3
  /\ IsSome(pulse.fromCell)
  /\ audioCtxUnavailable /\ audioOp.tone.calls > 0 /\ audioOp.tone.lookups = 0
  /\ drumEngine.audio.unavailable /\ audioOp.drum.calls > 0 /\ audioOp.drum.lookups = 0

\* The times, in the bar, of the d and u symbols of the active pattern.
StrokeTimes ==
  UNION { { b * BeatUnit + (k * BeatUnit) \div Len(Val(activeStrumBeats)[b + 1]) :
              k \in { k \in 0..(Len(Val(activeStrumBeats)[b + 1]) - 1) :
                        Val(activeStrumBeats)[b + 1][k + 1] \in {"d", "u"} } } :
          b \in 0..(progressionBeatsPerChord - 1) }

\* The time in the bar at which an event of the planned beat begins.
OnsetInBar(ev) == (lastOp.arg % 4) * BeatUnit + ev.delayBeats

\* The event is string j (0.05 beats apart) of a stroke of the planned beat, and
\* begins before the next later action of the bar and before the end of the bar.
StringBeforeBoundary(ev) ==
  \E time \in StrokeTimes, j \in 0..2 :
    /\ (lastOp.arg % 4) * BeatUnit <= time
    /\ OnsetInBar(ev) = time + j * (BeatUnit \div 20)
    /\ OnsetInBar(ev) < NextActionTime(time)
    /\ OnsetInBar(ev) < progressionBeatsPerChord * BeatUnit

\* The strings of the strokes of the planned beat that begin before the next
\* later action of the bar, as <<stroke time, string>>.
StringsBeforeBoundary ==
  { s \in StrokeTimes \X (0..2) :
      /\ (lastOp.arg % 4) * BeatUnit <= s[1] /\ s[1] < ((lastOp.arg % 4) + 1) * BeatUnit
      /\ s[1] + s[2] * (BeatUnit \div 20) < NextActionTime(s[1]) }

\* C22: in every plan (any riff, strum pattern and mode) every note event has a
\* delay in [0,1); every strum event is a string of a stroke of the beat whose onset
\* is before the next later action of the bar and before the end of the bar, and
\* no more strum events are emitted than there are strings with such an onset.
C22_DelaysWithinBeatAndBoundary ==
  (PlanCalled /\ IsSome(lastOp.ret)) =>
    With(Val(lastOp.ret).noteEvents, LAMBDA events :
      /\ \A m \in 1..Len(events) :
           /\ 0 <= events[m].delayBeats /\ events[m].delayBeats < 1 * BeatUnit
           /\ events[m].kind = "strum" => StringBeforeBoundary(events[m])
      /\ Len(SelectSeq(events, LAMBDA ev : ev.kind = "strum"))
           <= (IF IsSome(activeStrumBeats) THEN Cardinality(StringsBeforeBoundary) ELSE 0))

\* Beat 0 of the pattern of twelve d symbols was planned: the strokes are 1/12 beat
\* apart, so each stroke keeps its first two strings and loses the third, which
\* would begin after the next stroke (the last stroke loses its third string to
\* the end of the beat).
C22_Witness ==
  /\ StrumPlanned /\ lastOp.arg = 0
  /\ Len(Val(activeStrumBeats)[1]) = 12
  /\ Len(Val(lastOp.ret).noteEvents) = 24
  /\ Cardinality(StringsBeforeBoundary) = 25
  /\ \E m \in 1..24 : Val(lastOp.ret).noteEvents[m].delayBeats = (11 * BeatUnit) \div 12 + BeatUnit \div 20

\* The chord (0-based root entry) of the planned beat.
PlannedChord == (lastOp.arg \div 4) % Len(GetActiveProgressionRootEntries)

\* The cshape1351 shape of a chord: root and third of its E shape, the fifth at
\* the fretspace offset (-3, +2) from the root.
CShapeOf(chord) ==
  With(GetActiveProgressionRootEntries, LAMBDA entries :
    GetCshape1351ForDegreeToken(entries[chord + 1].degreeToken,
                                GetChordShapeForRootIndex(entries, chord)))

\* C23: with a strum pattern active the shape of every plan is the cshape1351
\* shape of the beat's chord in every mode; without one it is the shape of the
\* selected mode's strategy.
C23_StrumForcesCShape ==
  (PlanCalled /\ IsSome(lastOp.ret)) =>
    Some(Val(lastOp.ret).shape)
      = (IF IsSome(activeStrumBeats) THEN CShapeOf(PlannedChord)
         ELSE Some(ModeShape(PlannedChord)))

\* A beat of the second chord was planned in mode root5th under a strum pattern:
\* its shape is the C shape, which is not the shape of the mode.
C23_Witness ==
  /\ PlanCalled /\ IsSome(lastOp.ret) /\ IsSome(activeStrumBeats)
  /\ progressionPlaybackMode = "root5th"
  /\ lastOp.arg \div 4 = 1
  /\ Val(lastOp.ret).shape # ModeShape(PlannedChord)
  /\ Some(Val(lastOp.ret).shape) = CShapeOf(PlannedChord)

(***************************************************************************)
(* Properties of the dispatch of a beat.                                   *)
(***************************************************************************)
\* The last transport handler dispatched a beat planned from the strum pattern:
\* a start or a tick, under an active pattern and no riff.
StrumDispatched ==
  /\ lastOp.name \in {"start", "tick"} /\ Len(lastOp.dispatched) = 1
  /\ IsSome(activeStrumBeats) /\ activeRiffBeats = None

\* The token of the dispatched beat.
DispatchedToken == Val(activeStrumBeats)[(lastOp.dispatched[1].beat % 4) + 1]

\* The delays of the s symbols of the dispatched beat's token, in order: symbol k
\* of n is at k / n.
SlapDelays ==
  With(DispatchedToken, LAMBDA token :
  With(SelectSeq([k \in 1..Len(token) |-> k - 1], LAMBDA k : token[k + 1] = "s"),
       LAMBDA at : [m \in 1..Len(at) |-> (at[m] * BeatUnit) \div Len(token)]))

\* The plan of the dispatched beat.
DispatchedPlan ==
  Val(GetProgressionBeatPlan(lastOp.dispatched[1].beat, GetActiveProgressionRootEntries))

\* The slap events of the plan and the slap calls of the dispatch are one per s
\* symbol, at its delay; the calls carry no cell and the pitched calls are one
\* per event that is not a slap.
OneSlapPerSymbol(plan, calls) ==
  With(SelectSeq(plan.noteEvents, LAMBDA ev : ev.kind = "slap"), LAMBDA slaps :
  With(SelectSeq(calls, LAMBDA call : call.voice = "slap"), LAMBDA slapCalls :
    /\ [m \in 1..Len(slaps) |-> slaps[m].delayBeats] = SlapDelays
    /\ [m \in 1..Len(slapCalls) |-> slapCalls[m].delayBeats] = SlapDelays
    /\ \A m \in 1..Len(slapCalls) : slapCalls[m].cell = None
    /\ Len(calls) - Len(slapCalls) = Len(plan.noteEvents) - Len(slaps)
    /\ \A m \in 1..Len(calls) : calls[m].voice \in {"slap", "tone"}))

SnapCalled == lastOp.name = "snapToLattice"

\* The rounded lattice coordinates of the candidate of the call: i0 = round(a),
\* j0 = round(b), with a = aNum / (12 U) and b = bNum / (6 U).
RoundedIndex ==
  With(lastOp.arg.origin, LAMBDA c :
  With(lastOp.arg.o, LAMBDA o :
    << ((c.x - o.xCw) - 5 * (c.y - o.yCw) + 6 * U) \div (12 * U),
       ((c.x - o.xCw) + (c.y - o.yCw) + 3 * U) \div (6 * U) >>))

\* The lattice point with integer coordinates ij about the origin of the call.
LatticePoint(ij) ==
  Pt(lastOp.arg.o.xCw + 2 * ij[1] * U + 5 * ij[2] * U,
     lastOp.arg.o.yCw - 2 * ij[1] * U + ij[2] * U)

\* A placement whose origin cell is at pt lies on the board.
OnBoard(pt) ==
  /\ 0 <= pt.x - originOffset.col * U /\ pt.x - originOffset.col * U <= (widthCw - brickWidthCw) * U
  /\ 0 <= pt.y - originOffset.row * U /\ pt.y - originOffset.row * U <= (heightCw - brickHeightCw) * U

\* The coordinates of the on-board lattice points of the square ring of Chebyshev
\* radius r about the rounded point.
RingOnBoard(r) ==
  { ij \in ((RoundedIndex[1] - r)..(RoundedIndex[1] + r))
             \X ((RoundedIndex[2] - r)..(RoundedIndex[2] + r)) :
      /\ Max(Abs(ij[1] - RoundedIndex[1]), Abs(ij[2] - RoundedIndex[2])) = r
      /\ OnBoard(LatticePoint(ij)) }

\* No ring about any candidate drawn is wider than this when it first meets the board.
MaxRingRadius == 60

\* The radius of the first ring, of those up to limit, with an on-board point
\* (limit + 1 without one).
RECURSIVE FirstRingFrom(_, _)
FirstRingFrom(r, limit) ==
  IF r > limit THEN limit + 1
  ELSE IF RingOnBoard(r) # {} THEN r
  ELSE FirstRingFrom(r + 1, limit)

\* The point is, of the on-board points of ring r, the nearest to the candidate
\* and, among the nearest, the first in scan order (first coordinate, then second).
NearestOfRing(pt, r) ==
  \E ij \in RingOnBoard(r) :
    /\ pt = LatticePoint(ij)
    /\ \A other \in RingOnBoard(r) :
         \/ PtSqDist(LatticePoint(ij), lastOp.arg.origin)
              < PtSqDist(LatticePoint(other), lastOp.arg.origin)
         \/ /\ PtSqDist(LatticePoint(ij), lastOp.arg.origin)
                 = PtSqDist(LatticePoint(other), lastOp.arg.origin)
            /\ \/ ij[1] < other[1]
               \/ ij[1] = other[1] /\ ij[2] <= other[2]

\* C25 as stated: when the rounded point is off the board, the result is the
\* nearest on-board point (first in scan order among equals) of the first ring,
\* of whatever radius, that has an on-board point.
C25_FirstRingOfAnyRadius ==
  (SnapCalled /\ ~OnBoard(LatticePoint(RoundedIndex))) =>
    With(FirstRingFrom(0, MaxRingRadius), LAMBDA r :
      r <= MaxRingRadius /\ NearestOfRing(lastOp.ret, r))

\* C25, amended: the same of the rings of radius 0 to 19, when one of them has an
\* on-board point.
C25_FirstRingWithinCap ==
  (SnapCalled /\ ~OnBoard(LatticePoint(RoundedIndex)) /\ FirstRingFrom(0, 19) <= 19) =>
    NearestOfRing(lastOp.ret, FirstRingFrom(0, 19))

\* A candidate off the board was snapped to a point of a ring of radius two or more
\* that has another on-board point at the same distance, later in the scan.
C25_Witness ==
  /\ SnapCalled /\ ~OnBoard(LatticePoint(RoundedIndex))
  /\ FirstRingFrom(0, 19) \in 2..19
  /\ NearestOfRing(lastOp.ret, FirstRingFrom(0, 19))
  /\ \E other \in RingOnBoard(FirstRingFrom(0, 19)) :
       /\ LatticePoint(other) # lastOp.ret
       /\ PtSqDist(LatticePoint(other), lastOp.arg.origin)
            = PtSqDist(lastOp.ret, lastOp.arg.origin)

\* C26: the result is a lattice point with integer coordinates within Chebyshev
\* radius 19 of the rounded coordinates (no ring beyond the twentieth is reached);
\* it is off the board only when no lattice point within that radius is on the
\* board, and it is then the rounded point itself.
C26_CappedSearchFallsBackToRounded ==
  SnapCalled =>
    /\ \E ij \in ((RoundedIndex[1] - 19)..(RoundedIndex[1] + 19))
                   \X ((RoundedIndex[2] - 19)..(RoundedIndex[2] + 19)) :
         lastOp.ret = LatticePoint(ij)
    /\ ~OnBoard(lastOp.ret) =>
         /\ \A r \in 0..19 : RingOnBoard(r) = {}
         /\ lastOp.ret = LatticePoint(RoundedIndex)

\* A candidate far off the board, not itself a lattice point, was snapped: no ring
\* of radius 0..19 meets the board and the result is the rounded point, off the board.
C26_Witness ==
  /\ SnapCalled /\ ~OnBoard(lastOp.ret)
  /\ \A r \in 0..19 : RingOnBoard(r) = {}
  /\ lastOp.ret = LatticePoint(RoundedIndex)
  /\ lastOp.ret # lastOp.arg.origin

(***************************************************************************)
(* Properties of the drag projection.                                      *)
(***************************************************************************)
ProjectCalled == lastOp.name = "doMove"

\* (desired - start) . V, in 1/U cell-widths: t is this over |V|^2 U.
ProjectionDot ==
  (lastOp.arg.desired.x - lastOp.arg.s.x) * lastOp.arg.v.x
    + (lastOp.arg.desired.y - lastOp.arg.s.y) * lastOp.arg.v.y

\* |V|^2
VLenSq == lastOp.arg.v.x * lastOp.arg.v.x + lastOp.arg.v.y * lastOp.arg.v.y

\* round(t) = floor(t + 1/2)
RoundedT == (2 * ProjectionDot + VLenSq * U) \div (2 * VLenSq * U)

\* |t - round(t)| |V| <= 0.5, squared and cleared of denominators.
WithinSnapRadius ==
  4 * (ProjectionDot - RoundedT * VLenSq * U) * (ProjectionDot - RoundedT * VLenSq * U)
    <= VLenSq * U * U

\* The lattice point start + round(t) V.
NearestOnLine ==
  Pt(lastOp.arg.s.x + RoundedT * lastOp.arg.v.x * U, lastOp.arg.s.y + RoundedT * lastOp.arg.v.y * U)

\* The desired position moved by quarter cell-widths across the line.
MovedAcross(quarters) ==
  Pt(lastOp.arg.desired.x - quarters * lastOp.arg.v.y * (U \div 4),
     lastOp.arg.desired.y + quarters * lastOp.arg.v.x * (U \div 4))

\* C27: the position given is start + round(t) V when |t - round(t)| |V| <= 0.5 and
\* start + t V, with t fractional, otherwise; it is the same for every desired
\* position that differs only across the line.
C27_SnapNearLatticeElseSlide ==
  ProjectCalled =>
    /\ IF WithinSnapRadius THEN lastOp.ret = NearestOnLine
       ELSE /\ (lastOp.ret.x - lastOp.arg.s.x) * VLenSq = ProjectionDot * lastOp.arg.v.x
            /\ (lastOp.ret.y - lastOp.arg.s.y) * VLenSq = ProjectionDot * lastOp.arg.v.y
            /\ lastOp.ret # NearestOnLine
    /\ \A quarters \in (-3)..3 :
         ProjectOntoLine(MovedAcross(quarters), lastOp.arg.s, lastOp.arg.v) = lastOp.ret

\* A desired position off the line along (5,1) was projected between two lattice
\* points of the line, more than half a cell-width from either, nearer the one
\* step from the anchor.
C27_Witness ==
  /\ ProjectCalled /\ lastOp.arg.v = Pt(5, 1)
  /\ ~WithinSnapRadius /\ RoundedT = 1
  /\ (lastOp.arg.desired.x - lastOp.arg.s.x) * lastOp.arg.v.y
       # (lastOp.arg.desired.y - lastOp.arg.s.y) * lastOp.arg.v.x
  /\ lastOp.ret # NearestOnLine

(***************************************************************************)
(* Properties of the root lookups.                                         *)
(***************************************************************************)
RootEntriesCalled == lastOp.name = "getActiveProgressionRootEntries"

\* The 1-based rows of the bottom two rows of the labels.
BottomTwoRows == { r \in 1..Len(BrickCellData) : r + 2 > Len(BrickCellData) }

\* Some label of the bottom two rows has the semitone.
BottomRowsHaveSemitone(semitone) ==
  \E r \in BottomTwoRows : \E c \in 1..Len(BrickCellData[r]) :
    CellLabelToSemitoneOffset(BrickCellData[r][c]) = Some(semitone)

\* The entries returned whose root semitone no label of the bottom two rows has.
UnlabelledEntries ==
  { i \in 1..Len(lastOp.ret) :
      \/ Len(bricks) = 0
      \/ ~BottomRowsHaveSemitone(Val(DegreeToSemitoneOffset(lastOp.ret[i].degreeToken))) }

EntrySemitone(i) == Val(DegreeToSemitoneOffset(lastOp.ret[i].degreeToken))

\* Of a set of offsets <<x, y>>, the one of least |x| + 2|y|, of lowest y among equals.
LeastOffset(offsets) ==
  CHOOSE p \in offsets : \A q \in offsets :
    \/ Abs(p[1]) + 2 * Abs(p[2]) < Abs(q[1]) + 2 * Abs(q[2])
    \/ Abs(p[1]) + 2 * Abs(p[2]) = Abs(q[1]) + 2 * Abs(q[2]) /\ p[2] <= q[2]

\* The entry's root is the lattice origin moved by the fretspace offset: +x against
\* world x, +y along world y, whatever the mirror flags.
RootPlacedAt(i, offset) ==
  lastOp.ret[i].rootCell
    = Cell(GetOneCellCenter.xCw - offset[1] * U, GetOneCellCenter.yCw + offset[2] * U)

\* C28 as stated: the root without a matching label is placed at the offset (x, y)
\* with x - 5y = semitone of least |x| + 2|y| over y in -3..3, the lowest y on ties.
C28_OffsetOfXMinusFiveY ==
  RootEntriesCalled =>
    \A i \in UnlabelledEntries :
      RootPlacedAt(i, LeastOffset({ <<EntrySemitone(i) + 5 * y, y>> : y \in (-3)..3 }))

\* C28 amended: the offset (x, y) satisfies x + 5y = semitone.
C28_OffsetOfXPlusFiveY ==
  RootEntriesCalled =>
    \A i \in UnlabelledEntries :
      RootPlacedAt(i, LeastOffset({ <<EntrySemitone(i) - 5 * y, y>> : y \in (-3)..3 }))

\* The roots of "VII", "bI" and "#VI" were placed by offset from the origin of a first
\* placement put at (10,6), in left-handed display.
C28_Witness ==
  /\ RootEntriesCalled /\ Len(lastOp.ret) = 4 /\ UnlabelledEntries = {1, 3, 4}
  /\ Len(bricks) = 1 /\ bricks[1] = Cell(10 * U, 6 * U) /\ isLeftHanded
  /\ lastOp.ret[1].rootCell = Cell(GetOneCellCenter.xCw - U, GetOneCellCenter.yCw + 2 * U)


FindRootCalled == lastOp.name = "findRootCellInFirstBrick"

\* The label (0-based row and column) under a cell of the first placement.
LabelUnder(cell) ==
  BrickCellData[(cell.yCw - bricks[1].yCw) \div U + 1][(cell.xCw - bricks[1].xCw) \div U + 1]

\* The cell of the first placement at a 1-based row and column of the labels.
CellAtLabel(r, c) == Cell(bricks[1].xCw + (c - 1) * U, bricks[1].yCw + (r - 1) * U)

\* The 1-based rows and columns of the bottom two rows whose label has the semitone.
BottomMatches(semitone) ==
  { rc \in BottomTwoRows \X (1..Len(BrickCellData[1])) :
      CellLabelToSemitoneOffset(BrickCellData[rc[1]][rc[2]]) = Some(semitone) }

\* C29: the lookup returns the cell of the first label, in row-major order over the
\* bottom two rows, whose semitone is the degree's, and nothing when there is none
\* there (a match in a higher row is not returned); it leaves the placements as they
\* were. A step that records a new lookup is a call of it.
C29_FirstMatchOfBottomTwoRows ==
  [][FindRootCalled' /\ lastOp' # lastOp =>
       /\ bricks' = bricks
       /\ With(DegreeToSemitoneOffset(lastOp'.arg), LAMBDA semitone :
            IF Len(bricks) = 0 \/ ~IsSome(semitone) \/ BottomMatches(Val(semitone)) = {}
            THEN lastOp'.ret = None
            ELSE \E rc \in BottomMatches(Val(semitone)) :
                   /\ lastOp'.ret = Some(CellAtLabel(rc[1], rc[2]))
                   /\ \A o \in BottomMatches(Val(semitone)) :
                        o[1] > rc[1] \/ (o[1] = rc[1] /\ o[2] >= rc[2]))]_vars

\* For "V" the lookup returned the cell labelled "5" in the bottom row, third column, of
\* a first placement at (3,2), whose top row also has a "5".
C29_Witness ==
  /\ FindRootCalled /\ lastOp.arg = Str(<<"V">>)
  /\ Len(bricks) = 1 /\ bricks[1] = Cell(3 * U, 2 * U)
  /\ lastOp.ret = Some(Cell(5 * U, 4 * U))
  /\ LabelUnder(Val(lastOp.ret)) = <<"5">>
  /\ BrickCellData[1][5] = <<"5">>


(***************************************************************************)
(* Properties of the chord third.                                          *)
(***************************************************************************)
ThirdCalled == lastOp.name = "getThirdSemitoneOffsetForDegree"

\* The 0-based scale-degree index of a run of accidentals and a roman numeral.
DegreeIndexOf(chars) ==
  With(CHOOSE k \in 0..Len(chars) : IsDegreeAt(chars, k), LAMBDA k :
    (CHOOSE n \in 1..Len(degreeOrder) :
       ToUpperCase(SubSeq(chars, k + 1, Len(chars))) = degreeOrder[n]) - 1)

\* C30: for a valid token the third is (degreeToSemitone(token) + T[index]) mod 12 with
\* T = [4,3,3,4,4,3,3] and index the scale-degree index of the numeral, whatever its
\* letter case and accidentals; it is in 0..11; an invalid token yields no value.
C30_ThirdByDegreeIndex ==
  ThirdCalled =>
    IF lastOp.arg.str /\ IsDegree(Trim(lastOp.arg.s))
    THEN /\ lastOp.ret
              = Some((DegreeSemitone(Trim(lastOp.arg.s))
                        + <<4, 3, 3, 4, 4, 3, 3>>[DegreeIndexOf(Trim(lastOp.arg.s)) + 1]) % 12)
         /\ lastOp.ret = Some((Val(DegreeToSemitoneOffset(lastOp.arg))
                        + <<4, 3, 3, 4, 4, 3, 3>>[DegreeIndexOf(Trim(lastOp.arg.s)) + 1]) % 12)
         /\ Val(lastOp.ret) \in 0..11
    ELSE lastOp.ret = None /\ DegreeToSemitoneOffset(lastOp.arg) = None

\* The call with "#iv" returned 10: root 6, and the major third of degree index 3
\* although the numeral is in lower case and sharpened.
C30_Witness ==
  /\ ThirdCalled /\ lastOp.arg = Str(<<"#", "i", "v">>)
  /\ lastOp.ret = Some(10) /\ DegreeToSemitoneOffset(lastOp.arg) = Some(6)

(***************************************************************************)
(* Properties of the chord shapes.                                         *)
(***************************************************************************)
ShapeCalled == lastOp.name = "getBassRunShapeForChordIndex" /\ lastOp.ret # None

\* The degree token of the chord the shape was asked for.
ShapeToken ==
  With(GetActiveProgressionRootEntries, LAMBDA entries :
    entries[(lastOp.arg.chordIndex % Len(entries)) + 1].degreeToken)

\* The cell at a fretspace offset from a cell: +x against world x, +y along world y.
FretspaceFrom(cell, x, y) == Cell(cell.xCw - x * U, cell.yCw + y * U)

\* The third interval of a valid token, by its scale-degree index.
ThirdIntervalOf(token) == <<4, 3, 3, 4, 4, 3, 3>>[DegreeIndexOf(Trim(token.s)) + 1]

\* The shape of the same chord under the E shape strategy.
EshapeOfSameChord ==
  Val(GetBassRunShapeForChordIndex(GetActiveProgressionRootEntries, lastOp.arg.chordIndex,
                                   "eshape513"))

\* C31: under eshape513 the third is at fretspace offset (-1,+1) from the root when
\* the third interval is 4 semitones and at (-2,+1) otherwise, and the fifth at (0,-1);
\* under cshape1351 root and third are those of eshape513 and the fifth is at (-3,+2).
C31_EshapeAndCshapeOffsets ==
  ShapeCalled =>
    With(Val(lastOp.ret), LAMBDA shape :
      /\ lastOp.arg.shapeStrategy = "eshape513" =>
           /\ shape.third = FretspaceFrom(shape.root,
                                          IF ThirdIntervalOf(ShapeToken) = 4 THEN -1 ELSE -2, 1)
           /\ shape.fifth = FretspaceFrom(shape.root, 0, -1)
      /\ lastOp.arg.shapeStrategy = "cshape1351" =>
           /\ shape.root = EshapeOfSameChord.root
           /\ shape.third = EshapeOfSameChord.third
           /\ shape.fifth = FretspaceFrom(shape.root, -3, 2))

\* The C shape of "vi" (minor third) was built in vertically mirrored display: third
\* at (-2,+1) and fifth at (-3,+2) from the root, the fifth not that of the E shape.
C31_Witness ==
  /\ ShapeCalled /\ lastOp.arg.shapeStrategy = "cshape1351"
  /\ ShapeToken = Str(<<"v", "i">>) /\ isVerticallyMirrored
  /\ Val(lastOp.ret).third = FretspaceFrom(Val(lastOp.ret).root, -2, 1)
  /\ Val(lastOp.ret).fifth = FretspaceFrom(Val(lastOp.ret).root, -3, 2)
  /\ Val(lastOp.ret).fifth # EshapeOfSameChord.fifth


\* The chord's third semitone, from its token.
ThirdSemitoneOf(token) == (DegreeSemitone(Trim(token.s)) + ThirdIntervalOf(token)) % 12

\* The 1-based rows and columns of all the labels that have the semitone.
AllMatches(semitone) ==
  { rc \in (1..Len(BrickCellData)) \X (1..Len(BrickCellData[1])) :
      CellLabelToSemitoneOffset(BrickCellData[rc[1]][rc[2]]) = Some(semitone) }

\* Squared distance, in 1/U cell-widths, from the labelled cell to a cell.
SqDistFrom(rc, cell) ==
  (CellAtLabel(rc[1], rc[2]).xCw - cell.xCw) * (CellAtLabel(rc[1], rc[2]).xCw - cell.xCw)
    + (CellAtLabel(rc[1], rc[2]).yCw - cell.yCw) * (CellAtLabel(rc[1], rc[2]).yCw - cell.yCw)

\* The row above the cell is one of the rows of the first placement.
RowAboveInPlacement(cell) ==
  /\ Len(bricks) > 0
  /\ cell.yCw - U >= bricks[1].yCw
  /\ cell.yCw - U <= bricks[1].yCw + (Len(BrickCellData) - 1) * U

\* C32: under the default strategy the fifth is the cell one row above the root in
\* its column when that row is a row of the reference placement, the third is the
\* labelled cell of the third's semitone nearest the root (the first in row-major
\* order among equals), and the root stands in for either when there is no such cell.
C32_DefaultShapeCells ==
  ShapeCalled /\ lastOp.arg.shapeStrategy = "default" =>
    With(Val(lastOp.ret), LAMBDA shape :
      /\ shape.root
           = GetActiveProgressionRootEntries[
               (lastOp.arg.chordIndex % Len(GetActiveProgressionRootEntries)) + 1].rootCell
      /\ shape.fifth = IF RowAboveInPlacement(shape.root)
                       THEN Cell(shape.root.xCw, shape.root.yCw - U) ELSE shape.root
      /\ IF Len(bricks) = 0 \/ AllMatches(ThirdSemitoneOf(ShapeToken)) = {}
         THEN shape.third = shape.root
         ELSE \E rc \in AllMatches(ThirdSemitoneOf(ShapeToken)) :
                /\ shape.third = CellAtLabel(rc[1], rc[2])
                /\ \A o \in AllMatches(ThirdSemitoneOf(ShapeToken)) :
                     \/ SqDistFrom(rc, shape.root) < SqDistFrom(o, shape.root)
                     \/ /\ SqDistFrom(rc, shape.root) = SqDistFrom(o, shape.root)
                        /\ (o[1] > rc[1] \/ (o[1] = rc[1] /\ o[2] >= rc[2])))

\* The default shape of "III" on a first placement at (10,6): the third is the "5" of
\* the bottom row, nearer the root than the "5" of the top row that comes first in
\* row-major order, and the fifth is the cell above the root.
C32_Witness ==
  /\ ShapeCalled /\ lastOp.arg.shapeStrategy = "default"
  /\ ShapeToken = Str(<<"I", "I", "I">>)
  /\ Len(bricks) = 1 /\ bricks[1] = Cell(10 * U, 6 * U)
  /\ Val(lastOp.ret).root = Cell(10 * U, 7 * U)
  /\ Val(lastOp.ret).third = Cell(12 * U, 8 * U)
  /\ Val(lastOp.ret).fifth = Cell(10 * U, 6 * U)
  /\ Cardinality(AllMatches(7)) = 2


\* The pitch of a cell: the semitone coordinate the tone is played at, in thousandths.
PitchOf(cell) == DotSemitoneOffset(cell.xCw, cell.yCw)

\* C33: for a valid token, each strategy and each setting of the mirror flags, the
\* pitches of the shape's cells are, modulo 12 semitones, degreeToSemitone(token)
\* for the root, thirdSemitoneForDegree(token) for the third and the root's plus 7
\* for the fifth; and the cell at fretspace delta (x, y) from the root sounds exactly
\* x + 5y semitones above it.
C33_ShapePitches ==
  ShapeCalled =>
    With(Val(lastOp.ret), LAMBDA shape :
      /\ PitchOf(shape.root) % (12 * Milli) = DegreeSemitone(Trim(ShapeToken.s)) * Milli
      /\ PitchOf(shape.root) % (12 * Milli) = Val(DegreeToSemitoneOffset(ShapeToken)) * Milli
      /\ PitchOf(shape.third) % (12 * Milli) = ThirdSemitoneOf(ShapeToken) * Milli
      /\ PitchOf(shape.third) % (12 * Milli)
           = Val(GetThirdSemitoneOffsetForDegree(ShapeToken)) * Milli
      /\ PitchOf(shape.fifth) % (12 * Milli)
           = ((DegreeSemitone(Trim(ShapeToken.s)) + 7) % 12) * Milli
      /\ \A x \in (-3)..3, y \in (-3)..3 :
           PitchOf(Val(FretspaceDeltaToWorldFromRoot(Some(shape.root), x, y)))
             = PitchOf(shape.root) + (x + 5 * y) * Milli)

\* The E shape of "IV" was built in left-handed, vertically mirrored display: the root
\* sounds 5, the third 9 and the fifth 0 semitones from the origin, modulo 12.
C33_Witness ==
  /\ ShapeCalled /\ lastOp.arg.shapeStrategy = "eshape513"
  /\ ShapeToken = Str(<<"I", "V">>) /\ isLeftHanded /\ isVerticallyMirrored
  /\ PitchOf(Val(lastOp.ret).root) % (12 * Milli) = 5 * Milli
  /\ PitchOf(Val(lastOp.ret).third) % (12 * Milli) = 9 * Milli
  /\ PitchOf(Val(lastOp.ret).fifth) % (12 * Milli) = 0


(***************************************************************************)
(* Properties of malformed progressions.                                   *)
(***************************************************************************)
\* A valid degree: a string that, trimmed, is accidentals and a roman numeral.
ValidToken(token) == token.str /\ IsDegree(Trim(token.s))

\* The tokens of the active progression, none for null.
ActiveTokens == IF IsSome(activeProgressionDegrees) THEN Val(activeProgressionDegrees) ELSE <<>>

\* Its valid tokens, in their order.
ValidTokens == SelectSeq(ActiveTokens, ValidToken)

\* C34: the chords of playback are the valid tokens of the progression in their
\* order (the plan of beat i is for valid token number floor(i / 4) mod N, and there
\* is no plan when none is valid), and hasProgressionPath() holds exactly when some
\* token of the active progression is valid.
C34_MalformedTokensSkipped ==
  /\ [i \in 1..Len(GetActiveProgressionRootEntries) |->
        GetActiveProgressionRootEntries[i].degreeToken] = ValidTokens
  /\ HasProgressionPath <=> \E i \in 1..Len(ActiveTokens) : ValidToken(ActiveTokens[i])
  /\ PlanCalled =>
       IF ValidTokens = <<>> THEN lastOp.ret = None
       ELSE /\ lastOp.ret # None
            /\ Val(lastOp.ret).shape.root
                 = Val(RootEntryFor(
                         ValidTokens[((lastOp.arg \div 4) % Len(ValidTokens)) + 1])).rootCell

\* With the progression vi, zz, bVII the plan of beat 5 was for bVII, the second valid
\* token, not for the malformed zz.
C34_Witness ==
  /\ PlanCalled /\ lastOp.arg = 5 /\ lastOp.ret # None
  /\ ActiveTokens = << Str(<<"v","i">>), Str(<<"z","z">>), Str(<<"b","V","I","I">>) >>
  /\ ValidTokens = << Str(<<"v","i">>), Str(<<"b","V","I","I">>) >>
  /\ Val(lastOp.ret).shape.root = Val(RootEntryFor(Str(<<"b","V","I","I">>))).rootCell
  /\ HasProgressionPath


(***************************************************************************)
(* Properties of the drum engine.                                          *)
(***************************************************************************)
\* The ids of the patterns the engine holds; each has four beats.
LoadedIds(drum) ==
  { drum.patterns[i].id : i \in { i \in 1..Len(drum.patterns) : Len(drum.patterns[i].beats) = 4 } }

\* This step is a call of setSelectedPattern with the id.
SelectsPattern(patternId) ==
  lastOp'.name = "setSelectedPattern" /\ lastOp'.arg = patternId /\ lastOp' # lastOp

\* This step is a call of playBeat while no pattern is selected.
PlaysBeatUnselected ==
  lastOp'.name = "playBeat" /\ lastOp' # lastOp /\ ~HasSelectedPattern(drumEngine)

\* Patterns are loaded and none is selected: the state setSelectedPattern leaves when
\* it disables the drums.
DrumsDisabled(drum) == Len(drum.patterns) > 0 /\ ~HasSelectedPattern(drum)

C36_ClockIffPlaying ==
  /\ progressionBeatTimer # 0 <=> isProgressionPlaying
  /\ progressionAnimationFrame # 0 => isProgressionPlaying

\* A strum pattern was set during playback, with a riff at hand: the clock and an
\* animation frame are armed.
C36_Witness ==
  /\ lastOp.name = "setStrum" /\ lastOp.wasPlaying /\ isProgressionPlaying
  /\ IsSome(activeRiffBeats) /\ IsSome(activeStrumBeats)
  /\ progressionBeatTimer # 0 /\ progressionAnimationFrame # 0
  /\ progressionBeatIndex > 1

\* This step is a call of startProgressionPlayback.
StartCalled == lastOp'.name = "start" /\ lastOp' # lastOp

\* C37: startProgressionPlayback returns true exactly when playback is active as it
\* returns, and a call made while playback is active returns true and leaves the
\* beat index, the clock and its timers alone, dispatches no beat and notifies nobody.
C37_StartReturnsPlaying ==
  [][StartCalled =>
       /\ lastOp'.ret = "true" <=> isProgressionPlaying'
       /\ isProgressionPlaying =>
            /\ lastOp'.ret = "true"
            /\ progressionBeatIndex' = progressionBeatIndex
            /\ lastOp'.dispatched = <<>>
            /\ progressionBeatTimer' = progressionBeatTimer /\ intervals' = intervals
            /\ lastOp'.notified = 0
    ]_vars

\* A start during playback, after the clock had ticked twice: it returned true and
\* the beat index is still 2.
C37_Witness ==
  /\ lastOp.name = "start" /\ lastOp.wasPlaying /\ lastOp.ret = "true"
  /\ lastOp.prevBeatIndex = 2 /\ progressionBeatIndex = 2 /\ isProgressionPlaying
  /\ lastOp.dispatched = <<>> /\ lastOp.notified = 0

\* A start from rest that found a path: it returned true with playback active and
\* beat 0 dispatched.
C37_WitnessFromRest ==
  /\ lastOp.name = "start" /\ ~lastOp.wasPlaying /\ lastOp.ret = "true"
  /\ isProgressionPlaying /\ Len(lastOp.dispatched) = 1

\* C38: in every state playback active implies that the progression has a path;
\* after a progression was applied during playback, playback is active exactly when
\* the progression has a path; and after a tick of the clock playback is still
\* active and the tick dispatched its beat.
C38_PlayingHasPath ==
  /\ isProgressionPlaying => HasProgressionPath
  /\ (lastOp.name = "apply" /\ lastOp.wasPlaying)
       => (isProgressionPlaying <=> HasProgressionPath)
  /\ lastOp.name = "tick"
       => lastOp.wasPlaying /\ isProgressionPlaying /\ Len(lastOp.dispatched) = 1

\* Playback went on through a tick after the placements were cleared and both
\* mirror flags, the key, a riff and a strum pattern were set.
C38_Witness ==
  /\ lastOp.name = "tick" /\ isProgressionPlaying /\ HasProgressionPath
  /\ bricks = <<>> /\ isLeftHanded /\ isVerticallyMirrored /\ musicalKey = <<"G">>
  /\ IsSome(activeRiffBeats) /\ IsSome(activeStrumBeats)
  /\ progressionBeatIndex = 2

\* Tokens without a degree were applied during playback: playback stopped.
C38_WitnessStopped ==
  /\ lastOp.name = "apply" /\ lastOp.wasPlaying /\ ~isProgressionPlaying
  /\ IsSome(activeProgressionDegrees) /\ ~HasProgressionPath

(***************************************************************************)
(* C39-C40: the drag states over whole pointer sessions.                   *)
(***************************************************************************)
\* C39: a pending copy and a drag item never exist together, at most one hold timer
\* is armed, and a drag item is replaced by another only after it was finished.
C39_DragStatesExclusive ==
  [][/\ ~(IsSome(pendingDragCopy') /\ dragItem' # 0)
     /\ Cardinality(timeouts') <= 1
     /\ (dragItem # 0 /\ dragItem' # 0) => dragItem' = dragItem
    ]_vars

\* This step runs a pointer handler or the hold timer.
PointerStep == dragOp'.name \in {"start", "move", "end", "timer"}

\* C40: a step of a pointer handler or of the hold timer appends at most one
\* placement, which is then the drag item, and moves no placement but the drag item;
\* the first placement is never the drag item, so the lattice origin stays the same.
C40_EarlierPlacementsFixed ==
  [][PointerStep =>
       /\ Len(bricks') \in {Len(bricks), Len(bricks) + 1}
       /\ \A i \in 1..Len(bricks) : i # dragItem => bricks'[i] = bricks[i]
       /\ Len(bricks') = Len(bricks) + 1 => dragItem' = Len(bricks')
       /\ dragItem' # 0 => dragItem' >= 2
       /\ Len(bricks) > 0 =>
            /\ bricks'[1] = bricks[1]
            /\ OneCellCenterOf(bricks') = OneCellCenterOf(bricks)
    ]_vars

\* A move of a drag session has carried the appended placement away from the first
\* one, which is still where addBrick put it.
C40_Witness ==
  /\ dragOp.name = "move" /\ dragOp.projected /\ dragItem = 2 /\ Len(bricks) = 2
  /\ bricks[1] = Cell(10 * U, 6 * U) /\ bricks[2] # bricks[1]
  /\ OneCellCenterOf(bricks) = Cell(14 * U, 7 * U)

====
